---- MODULE Spec2Model ----
(***************************************************************************)
(* Model of the ReLeather inquiry webhook (src/app.py): one POST /webhook  *)
(* request is validated, its fields are extracted, the ZIP is classified,  *)
(* the eight critical rules are tried in order, otherwise five blocks are  *)
(* composed and sent to the text refiner; then a credential is acquired,   *)
(* a draft is dispatched and the JSON response is returned.                *)
(*                                                                         *)
(* Python strings are TLA+ strings (TLC evaluates Len, SubSeq and \o on    *)
(* them), so lower(), "in", isdigit(), int(), strip() and replace() are    *)
(* computed character by character.  The long fixed prose of the templates *)
(* is abbreviated to its opening words; interpolated fields are kept.      *)
(***************************************************************************)
EXTENDS Integers, Sequences, FiniteSets, TLC

VARIABLES
    sub,        \* sub[r]: the HTTP request body of request r (never changes)
    pc,         \* pc[r]: "start", "refine", "acquire", "dispatch", "done"
    fields,     \* fields[r]: the handler's local variables after extraction
    result,     \* result[r]: critical match or composed blocks and prompt
    token,      \* token[r]: access_token ("" stands for None)
    calls,      \* calls[r]: collaborator calls made so far, in order
    sent,       \* sent[r]: the messages posted to the mail provider
    log,        \* log[r]: logging records written so far
    http        \* http[r]: the HTTP response returned (status 0: none yet)

vars == <<sub, pc, fields, result, token, calls, sent, log, http>>

\* ---------------------------------------------------------------------
\* Bounds of the model
\* ---------------------------------------------------------------------
ZipMargin == 1      \* ZIPs within this distance of every range boundary
MaxCount == 2       \* "How many ...?" answers range over 0..MaxCount

\* ---------------------------------------------------------------------
\* Python string primitives
\* ---------------------------------------------------------------------
NL == "\n"
BR == "<br/>"

CharAt(s, i) == SubSeq(s, i, i)

Rest(s) == SubSeq(s, 2, Len(s))

LowerChar(c) ==
    CASE c = "A" -> "a" [] c = "B" -> "b" [] c = "C" -> "c" [] c = "D" -> "d"
      [] c = "E" -> "e" [] c = "F" -> "f" [] c = "G" -> "g" [] c = "H" -> "h"
      [] c = "I" -> "i" [] c = "J" -> "j" [] c = "K" -> "k" [] c = "L" -> "l"
      [] c = "M" -> "m" [] c = "N" -> "n" [] c = "O" -> "o" [] c = "P" -> "p"
      [] c = "Q" -> "q" [] c = "R" -> "r" [] c = "S" -> "s" [] c = "T" -> "t"
      [] c = "U" -> "u" [] c = "V" -> "v" [] c = "W" -> "w" [] c = "X" -> "x"
      [] c = "Y" -> "y" [] c = "Z" -> "z" [] OTHER -> c

\* s.lower(), character by character (the string is split in halves to keep
\* the evaluation shallow)
RECURSIVE lower(_)
lower(s) ==
    IF Len(s) = 0 THEN ""
    ELSE IF Len(s) = 1 THEN LowerChar(s)
    ELSE LET h == Len(s) \div 2
         IN  lower(SubSeq(s, 1, h)) \o lower(SubSeq(s, h + 1, Len(s)))

\* Python's  needle in hay  on strings
Contains(needle, hay) ==
    \E i \in 1..(Len(hay) - Len(needle) + 1) :
        SubSeq(hay, i, i + Len(needle) - 1) = needle

DigitChars == {"0", "1", "2", "3", "4", "5", "6", "7", "8", "9"}

DigitVal(c) ==
    CASE c = "0" -> 0 [] c = "1" -> 1 [] c = "2" -> 2 [] c = "3" -> 3
      [] c = "4" -> 4 [] c = "5" -> 5 [] c = "6" -> 6 [] c = "7" -> 7
      [] c = "8" -> 8 [] c = "9" -> 9

DigitChar(d) ==
    CASE d = 0 -> "0" [] d = 1 -> "1" [] d = 2 -> "2" [] d = 3 -> "3"
      [] d = 4 -> "4" [] d = 5 -> "5" [] d = 6 -> "6" [] d = 7 -> "7"
      [] d = 8 -> "8" [] d = 9 -> "9"

AllDigits(s) == \A i \in 1..Len(s) : CharAt(s, i) \in DigitChars

\* str.isdigit(): false for the empty string
isdigit(s) == s # "" /\ AllDigits(s)

WhiteChars == {" ", "\n", "\t", "\r"}

RECURSIVE lstrip(_)
lstrip(s) == IF s # "" /\ CharAt(s, 1) \in WhiteChars THEN lstrip(Rest(s)) ELSE s

RECURSIVE rstrip(_)
rstrip(s) ==
    IF s # "" /\ CharAt(s, Len(s)) \in WhiteChars
    THEN rstrip(SubSeq(s, 1, Len(s) - 1)) ELSE s

strip(s) == rstrip(lstrip(s))

RECURSIVE DigitsValue(_, _)
DigitsValue(s, acc) ==
    IF s = "" THEN acc ELSE DigitsValue(Rest(s), 10 * acc + DigitVal(CharAt(s, 1)))

\* int(s) for a str: surrounding whitespace and one sign are accepted, the
\* rest must be decimal digits; anything else raises ValueError.
IntOfStr(s) ==
    LET t == strip(s)
        signed == t # "" /\ CharAt(t, 1) \in {"+", "-"}
        body == IF signed THEN Rest(t) ELSE t
    IN  IF isdigit(body)
        THEN [ok |-> TRUE,
              n |-> IF signed /\ CharAt(t, 1) = "-"
                    THEN 0 - DigitsValue(body, 0) ELSE DigitsValue(body, 0)]
        ELSE [ok |-> FALSE, n |-> 0]

RECURSIVE NatStr(_)
NatStr(n) == IF n < 10 THEN DigitChar(n) ELSE NatStr(n \div 10) \o DigitChar(n % 10)

\* str(n) for an int
StrOfInt(n) == IF n < 0 THEN "-" \o NatStr(0 - n) ELSE NatStr(n)

\* s.replace(old, new) for a one-character old
\* the pieces of s from position i on, between the positions P of old, joined by new
RECURSIVE JoinPieces(_, _, _, _)
JoinPieces(s, i, P, new) ==
    LET Q == {j \in P : j >= i} IN
    IF Q = {} THEN SubSeq(s, i, Len(s))
    ELSE LET j == CHOOSE m \in Q : \A n \in Q : m <= n
         IN  SubSeq(s, i, j - 1) \o new \o JoinPieces(s, j + 1, Q \ {j}, new)

replace(s, old, new) == JoinPieces(s, 1, {j \in 1..Len(s) : CharAt(s, j) = old}, new)

\* ---------------------------------------------------------------------
\* JSON values as Python sees them after request.get_json()
\* ---------------------------------------------------------------------
PyAbsent == [t |-> "absent"]            \* the key / question is not there
PyNone == [t |-> "none"]                \* JSON null
PyStr(s) == [t |-> "str", s |-> s]
PyInt(n) == [t |-> "int", n |-> n]
PyList(items) == [t |-> "list", items |-> items]   \* items: PyStr or PyNone
PyMap(zipCode) == [t |-> "map", empty |-> FALSE, zipCode |-> zipCode]
PyEmptyMap == [t |-> "map", empty |-> TRUE, zipCode |-> PyAbsent]

\* truth value of a Python value in a condition
Truthy(v) ==
    CASE v.t = "str" -> v.s # ""
      [] v.t = "int" -> v.n # 0
      [] v.t = "list" -> v.items # <<>>
      [] v.t = "map" -> ~v.empty
      [] OTHER -> FALSE

\* ", ".join(str(v) for v in value if v is not None)
RECURSIVE JoinItems(_)
JoinItems(items) ==
    IF items = <<>> THEN ""
    ELSE LET rest == JoinItems(Tail(items))
             restEmpty == \A i \in 1..Len(Tail(items)) : Tail(items)[i].t = "none"
         IN  IF Head(items).t = "none" THEN rest
             ELSE IF restEmpty THEN Head(items).s
             ELSE Head(items).s \o ", " \o rest

\* get_question_value: the first question with that name decides
RECURSIVE get_question_value(_, _, _)
get_question_value(questions_list, question_name, default) ==
    IF questions_list = <<>> THEN default
    ELSE LET q == Head(questions_list)
             value == q.value
         IN  IF q.name = question_name
             THEN CASE value.t = "none" -> default
                    [] value.t = "list" ->
                         IF value.items # <<>> THEN PyStr(JoinItems(value.items))
                         ELSE default
                    [] value.t = "map" -> value
                    [] value.t = "int" -> PyStr(StrOfInt(value.n))
                    [] OTHER -> PyStr(value.s)
             ELSE get_question_value(Tail(questions_list), question_name, default)

\* ---------------------------------------------------------------------
\* ZIP parsing and geo classification (zip_code: <<>> is None, <<n>> an int)
\* ---------------------------------------------------------------------
\* address_field_value.get('zipCode', '') if it is a dict, else ""
ZipCodeStr(address_field_value) ==
    IF address_field_value.t = "map" /\ ~address_field_value.empty
    THEN (IF address_field_value.zipCode.t = "absent" THEN PyStr("")
          ELSE address_field_value.zipCode)
    ELSE PyStr("")

\* int(zip_code_str) guarded by truthiness; ValueError and TypeError leave None
ParseZip(zip_code_str) ==
    IF ~Truthy(zip_code_str) THEN <<>>
    ELSE CASE zip_code_str.t = "str" ->
                LET p == IntOfStr(zip_code_str.s) IN IF p.ok THEN <<p.n>> ELSE <<>>
           [] zip_code_str.t = "int" -> <<zip_code_str.n>>
           [] OTHER -> <<>>

\* variant: a submission without a ZIP counts as out of state
IsOutOfState_NoZipOutside(zip_code) ==
    IF zip_code # <<>>
    THEN ~(90000 <= zip_code[1] /\ zip_code[1] <= 92899)
    ELSE TRUE

IsOutOfState(zip_code) ==
    IF zip_code # <<>>
    THEN ~(90000 <= zip_code[1] /\ zip_code[1] <= 92899)
    ELSE FALSE

InRange(z, lo, hi) == lo <= z /\ z <= hi

\* variant: the second San Bernardino range ends at 92860
CountyName_WideSanBernardino(zip_code) ==
    IF zip_code = <<>> THEN ""
    ELSE LET z == zip_code[1] IN
         IF InRange(z, 90000, 90299) \/ InRange(z, 90700, 90899)
            \/ InRange(z, 91000, 91899) \/ InRange(z, 93500, 93599)
         THEN "Los Angeles County"
         ELSE IF InRange(z, 92000, 92199) THEN "San Diego County"
         ELSE IF InRange(z, 92500, 92599) THEN "Riverside County"
         ELSE IF InRange(z, 92300, 92499) \/ InRange(z, 92857, 92860)
         THEN "San Bernardino County"
         ELSE IF InRange(z, 93000, 93099) THEN "Ventura County"
         ELSE IF InRange(z, 92600, 92899) THEN "Orange County"
         ELSE IF InRange(z, 92200, 92299) THEN "Imperial County"
         ELSE IF InRange(z, 93100, 93199) THEN "Santa Barbara County"
         ELSE ""

\* variant: the Orange range is tested before the San Bernardino ranges
CountyName_OrangeFirst(zip_code) ==
    IF zip_code = <<>> THEN ""
    ELSE LET z == zip_code[1] IN
         IF InRange(z, 90000, 90299) \/ InRange(z, 90700, 90899)
            \/ InRange(z, 91000, 91899) \/ InRange(z, 93500, 93599)
         THEN "Los Angeles County"
         ELSE IF InRange(z, 92000, 92199) THEN "San Diego County"
         ELSE IF InRange(z, 92500, 92599) THEN "Riverside County"
         ELSE IF InRange(z, 92600, 92899) THEN "Orange County"
         ELSE IF InRange(z, 92300, 92499) \/ InRange(z, 92857, 92859)
         THEN "San Bernardino County"
         ELSE IF InRange(z, 93000, 93099) THEN "Ventura County"
         ELSE IF InRange(z, 92200, 92299) THEN "Imperial County"
         ELSE IF InRange(z, 93100, 93199) THEN "Santa Barbara County"
         ELSE ""

CountyName(zip_code) ==
    IF zip_code = <<>> THEN ""
    ELSE LET z == zip_code[1] IN
         IF InRange(z, 90000, 90299) \/ InRange(z, 90700, 90899)
            \/ InRange(z, 91000, 91899) \/ InRange(z, 93500, 93599)
         THEN "Los Angeles County"
         ELSE IF InRange(z, 92000, 92199) THEN "San Diego County"
         ELSE IF InRange(z, 92500, 92599) THEN "Riverside County"
         ELSE IF InRange(z, 92300, 92499) \/ InRange(z, 92857, 92859)
         THEN "San Bernardino County"
         ELSE IF InRange(z, 93000, 93099) THEN "Ventura County"
         ELSE IF InRange(z, 92600, 92899) THEN "Orange County"
         ELSE IF InRange(z, 92200, 92299) THEN "Imperial County"
         ELSE IF InRange(z, 93100, 93199) THEN "Santa Barbara County"
         ELSE ""

\* the in-service-area test of the delivery chain
InServiceArea(zip_code) ==
    zip_code # <<>> /\ 90000 <= zip_code[1] /\ zip_code[1] <= 92899

\* ---------------------------------------------------------------------
\* Field extraction
\* ---------------------------------------------------------------------
QFirstName == "First Name"
QEmail == "Email"
QService == "What leather service are you interested in?"
QItem == "What type of leather item?"
QColor == "Color Selection"
QCushion == "Are the seat cushions detachable or fixed to the furniture?"
QSofas == "How many sofas?"
QChairs == "How many chairs?"
QCushions == "How many cushions?"
QDetails == "Share further details:"
QAddress == "Untitled Address field"
UploadNames == <<"Upload a file (1)", "Upload a file (2)", "Upload a file (3)",
                 "Upload a file (5)", "Upload a file", "Upload a file (4)">>

\* str(v) as an f-string interpolates it (a dict prints as its repr)
Fmt(v) == IF v.t = "str" THEN v.s ELSE IF v.empty THEN "{}" ELSE "{...}"

\* {v or ''} inside an f-string
OrEmpty(v) == IF Truthy(v) THEN Fmt(v) ELSE ""

IsStrIn(v, S) == v.t = "str" /\ v.s \in S

\* int(x) if x and x.isdigit() else 0; a non-empty dict has no isdigit
CountRaises(x) == x.t = "map" /\ ~x.empty

NumOf(x) == IF x.t = "str" /\ isdigit(x.s) THEN DigitsValue(x.s, 0) ELSE 0

\* any(value.strip() != "" for value in values): 1 true, 0 false, 2 raised
\* (a dict has no strip); any() stops at the first true element
RECURSIVE AnyFilesUploaded(_)
AnyFilesUploaded(values) ==
    IF values = <<>> THEN 0
    ELSE IF Head(values).t = "map" THEN 2
    ELSE IF strip(Head(values).s) # "" THEN 1
    ELSE AnyFilesUploaded(Tail(values))

\* item_type.lower() is reached unless item_type is falsy or the total is 1
PluralRaises(item_type, total_explicit_items) ==
    item_type.t = "map" /\ ~item_type.empty /\ total_explicit_items # 1

\* variant: the item name is compared as typed, not lowercased
PluralItemType_NoLower(item_type, total_explicit_items) ==
    IF item_type = "" THEN item_type
    ELSE IF total_explicit_items > 1
    THEN CASE item_type = "sofa" -> "sofas"
           [] item_type = "chair" -> "chairs"
           [] item_type = "cushion" -> "cushions"
           [] item_type = "bag" -> "bags"
           [] item_type = "coat" -> "coats"
           [] item_type = "car" -> "cars"
           [] OTHER -> item_type \o "s"
    ELSE IF total_explicit_items = 1 THEN item_type
    ELSE IF item_type \in {"bag", "coat", "car"} THEN item_type \o "s"
    ELSE item_type

PluralItemType(item_type, total_explicit_items) ==
    IF item_type = "" THEN item_type
    ELSE IF total_explicit_items > 1
    THEN LET l == lower(item_type) IN
         CASE l = "sofa" -> "sofas"
           [] l = "chair" -> "chairs"
           [] l = "cushion" -> "cushions"
           [] l = "bag" -> "bags"
           [] l = "coat" -> "coats"
           [] l = "car" -> "cars"
           [] OTHER -> item_type \o "s"
    ELSE IF total_explicit_items = 1 THEN item_type
    ELSE IF lower(item_type) \in {"bag", "coat", "car"} THEN item_type \o "s"
    ELSE item_type

FullTextData(service_type, item_type, share_further_details) ==
    lower(OrEmpty(service_type) \o " " \o OrEmpty(item_type) \o " "
          \o OrEmpty(share_further_details))

\* the handler's locals after the extraction part; raised: an exception left it
Extract(questions) ==
    LET address_field_value == get_question_value(questions, QAddress, PyEmptyMap)
        how_many_sofas == get_question_value(questions, QSofas, PyStr("0"))
        how_many_chairs == get_question_value(questions, QChairs, PyStr("0"))
        how_many_cushions == get_question_value(questions, QCushions, PyStr("0"))
        item_type == get_question_value(questions, QItem, PyStr(""))
        service_type == get_question_value(questions, QService, PyStr(""))
        share_further_details == get_question_value(questions, QDetails, PyStr(""))
        total == NumOf(how_many_sofas) + NumOf(how_many_chairs) + NumOf(how_many_cushions)
        files == AnyFilesUploaded([i \in 1..Len(UploadNames) |->
                     get_question_value(questions, UploadNames[i], PyStr(""))])
        zip_code == ParseZip(ZipCodeStr(address_field_value))
    IN  [extracted |-> TRUE,
         raised |-> \/ CountRaises(how_many_sofas) \/ CountRaises(how_many_chairs)
                    \/ CountRaises(how_many_cushions) \/ files = 2
                    \/ PluralRaises(item_type, total),
         customer_first_name |-> get_question_value(questions, QFirstName, PyStr("")),
         customer_email |-> get_question_value(questions, QEmail, PyStr("")),
         service_type |-> service_type,
         item_type |-> item_type,
         color_selection |-> get_question_value(questions, QColor, PyStr("")),
         cushions_detachable_fixed |-> get_question_value(questions, QCushion, PyStr("")),
         total_explicit_items |-> total,
         any_files_uploaded |-> (files = 1),
         plural_item_type |-> IF item_type.t = "str"
                              THEN PluralItemType(item_type.s, total) ELSE Fmt(item_type),
         zip_code |-> zip_code,
         is_out_of_state |-> IsOutOfState(zip_code),
         county_name |-> CountyName(zip_code),
         full_text_data |-> FullTextData(service_type, item_type, share_further_details)]

NoFields == [extracted |-> FALSE, raised |-> FALSE]

\* ---------------------------------------------------------------------
\* Critical rules
\* ---------------------------------------------------------------------
Rule1(f) == Contains("bonded", f.full_text_data)

Rule2(f) == Contains("low-grade", f.full_text_data)

Rule3(f) == ~f.any_files_uploaded

\* variant: the fixed-seating rule names the service "Foam Replacement &
\* Restuffing" as the form does
Rule4_FoamRestuffing(f) ==
    /\ IsStrIn(f.service_type, {"Leather Restoration", "Leather Cleaning & Conditioning",
                                "Leather Dyeing (Color Change)",
                                "Foam Replacement & Restuffing"})
    /\ IsStrIn(f.item_type, {"Sofa", "Chair", "Cushion"})
    /\ f.cushions_detachable_fixed = PyStr("Fixed")
    /\ f.is_out_of_state

Rule4(f) ==
    /\ IsStrIn(f.service_type, {"Leather Restoration", "Leather Cleaning & Conditioning",
                                "Leather Dyeing (Color Change)", "Foam Replacement"})
    /\ IsStrIn(f.item_type, {"Sofa", "Chair", "Cushion"})
    /\ f.cushions_detachable_fixed = PyStr("Fixed")
    /\ f.is_out_of_state

Rule5(f) ==
    /\ IsStrIn(f.service_type, {"Leather Reupholstery", "Foam Replacement & Restuffing"})
    /\ IsStrIn(f.item_type, {"Sofa", "Chair"})
    /\ f.cushions_detachable_fixed = PyStr("Detachable")
    /\ f.is_out_of_state

\* variant: the general out-of-state rule does not name Leather Reupholstery
Rule6_NoReupholstery(f) ==
    /\ IsStrIn(f.service_type, {"Leather Restoration", "Leather Cleaning & Conditioning",
                                "Leather Dyeing (Color Change)"})
    /\ IsStrIn(f.item_type, {"Car", "Sofa", "Chair"})
    /\ f.is_out_of_state

Rule6(f) ==
    /\ IsStrIn(f.service_type, {"Leather Restoration", "Leather Cleaning & Conditioning",
                                "Leather Dyeing (Color Change)", "Leather Reupholstery"})
    /\ IsStrIn(f.item_type, {"Car", "Sofa", "Chair"})
    /\ f.is_out_of_state

Rule7(f) ==
    /\ IsStrIn(f.service_type, {"Leather Dyeing (Color Change)", "Leather Reupholstery"})
    /\ f.item_type = PyStr("Car")

Rule8(f) ==
    /\ f.service_type = PyStr("Leather Reupholstery")
    /\ IsStrIn(f.item_type, {"Bag", "Coat"})

\* variant: the upload test is made before the keyword tests
CriticalRule_FilesFirst(f) ==
    IF Rule3(f) THEN 3
    ELSE IF Rule1(f) THEN 1
    ELSE IF Rule2(f) THEN 2
    ELSE IF Rule4(f) THEN 4
    ELSE IF Rule5(f) THEN 5
    ELSE IF Rule6(f) THEN 6
    ELSE IF Rule7(f) THEN 7
    ELSE IF Rule8(f) THEN 8
    ELSE 0

\* variant: the general out-of-state test is made before the two specific ones
CriticalRule_GeneralFirst(f) ==
    IF Rule1(f) THEN 1
    ELSE IF Rule2(f) THEN 2
    ELSE IF Rule3(f) THEN 3
    ELSE IF Rule6(f) THEN 6
    ELSE IF Rule4(f) THEN 4
    ELSE IF Rule5(f) THEN 5
    ELSE IF Rule7(f) THEN 7
    ELSE IF Rule8(f) THEN 8
    ELSE 0

\* the chain of  if ...: return  statements; 0: no critical rule matched
CriticalRule(f) ==
    IF Rule1(f) THEN 1
    ELSE IF Rule2(f) THEN 2
    ELSE IF Rule3(f) THEN 3
    ELSE IF Rule4(f) THEN 4
    ELSE IF Rule5(f) THEN 5
    ELSE IF Rule6(f) THEN 6
    ELSE IF Rule7(f) THEN 7
    ELSE IF Rule8(f) THEN 8
    ELSE 0

Greeting(f) == "Hi " \o Fmt(f.customer_first_name) \o "," \o NL \o NL

Thanks == "Thank you for your interest in ReLeather." \o NL \o NL

OutOfAreaOptions == "However, we offer:" \o NL \o NL \o "* hides" \o NL \o "* conditioner"

\* response_output of critical rule i
CriticalBody(i, f) ==
    CASE i = 1 ->
           Greeting(f) \o Thanks \o "Your furniture appears to be bonded leather."
           \o NL \o NL \o OutOfAreaOptions
      [] i = 2 ->
           Greeting(f) \o Thanks \o "This leather has a surface-level color coating."
           \o NL \o NL \o "Please contact. Thank you."
      [] i = 3 ->
           Greeting(f) \o Thanks
           \o "We'd be happy to look into " \o Fmt(f.service_type) \o " for your "
           \o Fmt(f.item_type) \o ". Please send photos." \o NL \o NL \o "Thank you!"
      [] i \in {4, 5} ->
           Greeting(f) \o Thanks \o "Large and fixed seating services are local only."
           \o NL \o NL \o OutOfAreaOptions
      [] i = 6 ->
           Greeting(f) \o Thanks \o "We are unable to accommodate projects out of our area."
           \o NL \o NL \o "* hides" \o NL \o "* conditioner"
      [] i = 7 ->
           Greeting(f) \o Thanks
           \o "However, we do not offer " \o Fmt(f.service_type) \o " services for "
           \o Fmt(f.item_type) \o "s. We re-dye car seats."
      [] i = 8 ->
           Greeting(f) \o "Thank thank you for your interest in ReLeather." \o NL \o NL
           \o "However, we do not offer " \o Fmt(f.service_type) \o " services for "
           \o Fmt(f.item_type) \o "s. We re-dye " \o Fmt(f.item_type) \o "s."

\* email_subject of critical rule i
CriticalSubject(i, f) ==
    CASE i = 1 -> "ReLeather Inquiry - Bonded/Faux Leather"
      [] i = 2 -> "ReLeather Inquiry - Low-Grade Leather"
      [] i = 3 -> "ReLeather Inquiry for " \o Fmt(f.item_type)
      [] i \in {4, 5, 6} -> "ReLeather Inquiry - Out-of-State Service"
      [] i \in {7, 8} ->
           "ReLeather Inquiry - " \o Fmt(f.service_type) \o " for " \o Fmt(f.item_type)

\* the logging.info line that announces rule i
TriggerLog(i) ==
    CASE i = 1 -> "Triggered 'bonded' keyword critical rule."
      [] i = 2 -> "Triggered 'low-grade' keyword critical rule."
      [] i = 3 -> "Triggered 'no files uploaded' critical rule."
      [] i = 4 -> "Triggered 'out-of-state fixed furniture' critical rule."
      [] i = 5 -> "Triggered 'out-of-state detachable furniture' critical rule."
      [] i = 6 -> "Triggered 'general out-of-state' critical rule."
      [] i = 7 -> "Triggered 'car dyeing/reupholstery' critical rule."
      [] i = 8 -> "Triggered 'bag/jacket reupholstery' critical rule."

\* ---------------------------------------------------------------------
\* Block composition (reached only when no critical rule returned)
\* ---------------------------------------------------------------------
SofaChairCushion == {"Sofa", "Chair", "Cushion"}
DyeItems == {"Sofa", "Chair", "Cushion", "Bag", "Coat"}

ColorCatalogLink == " Browse color options here: releather.com/leather-dyeing#ColorOptions"

FoamExplanation == "This service replaces the cushion core."

ExplanationBlock(f) ==
    IF f.service_type = PyStr("Leather Restoration")
    THEN "This service addresses surface wear."
    ELSE IF f.service_type = PyStr("Leather Cleaning & Conditioning")
    THEN "Leather cleaning removes surface dirt."
    ELSE IF f.service_type = PyStr("Leather Reupholstery")
            /\ IsStrIn(f.item_type, SofaChairCushion)
    THEN "Our Full Leather Upholstery service."
    ELSE IF f.service_type = PyStr("Leather Dyeing (Color Change)")
            /\ IsStrIn(f.item_type, DyeItems)
    THEN "This service dyes the leather in your selected color - "
         \o Fmt(f.color_selection) \o ". It refreshes the " \o Fmt(f.item_type) \o "."
         \o (IF f.color_selection = PyStr("Other") THEN ColorCatalogLink ELSE "")
    ELSE IF f.service_type = PyStr("Foam Replacement & Restuffing")
    THEN (IF IsStrIn(f.item_type, {"Sofa", "Chair"}) THEN FoamExplanation
          ELSE IF f.item_type = PyStr("Cushion")
          THEN FoamExplanation \o NL \o NL \o "Foam Replacement Pricing " \o NL
               \o "Standard: $300-450 each "
          ELSE "")
    ELSE ""

MismatchWarning == "Treating a single cushion may result in a mismatch."
PatinaWarning == "The patina of your leather may not match."
MailInClause == " We require the original seat cover mailed to us."
CoatingWarning == "The new coating may reduce the suppleness."

\* variant: the mail-in clause is appended without its leading space
DisclaimerBlock_NoSpace(f) ==
    LET d1 == IF f.service_type = PyStr("Leather Restoration")
                 /\ f.item_type = PyStr("Cushion")
              THEN MismatchWarning ELSE ""
        d2 == IF f.service_type = PyStr("Leather Reupholstery")
                 /\ IsStrIn(f.item_type, SofaChairCushion)
              THEN d1 \o PatinaWarning
                   \o (IF f.is_out_of_state THEN Rest(MailInClause) ELSE "")
              ELSE d1
    IN  IF f.service_type = PyStr("Leather Dyeing (Color Change)")
           /\ IsStrIn(f.item_type, DyeItems)
        THEN (IF d2 # "" THEN d2 \o " " ELSE d2) \o CoatingWarning
        ELSE d2

DisclaimerBlock(f) ==
    LET d1 == IF f.service_type = PyStr("Leather Restoration")
                 /\ f.item_type = PyStr("Cushion")
              THEN MismatchWarning ELSE ""
        d2 == IF f.service_type = PyStr("Leather Reupholstery")
                 /\ IsStrIn(f.item_type, SofaChairCushion)
              THEN d1 \o PatinaWarning \o (IF f.is_out_of_state THEN MailInClause ELSE "")
              ELSE d1
    IN  IF f.service_type = PyStr("Leather Dyeing (Color Change)")
           /\ IsStrIn(f.item_type, DyeItems)
        THEN (IF d2 # "" THEN d2 \o " " ELSE d2) \o CoatingWarning
        ELSE d2

EstimateBlock(f) ==
    LET it == f.item_type IN
    IF f.service_type = PyStr("Leather Restoration")
    THEN CASE it = PyStr("Car") ->
                "$550-$650 per seat. Discount available for multiple seats"
           [] it = PyStr("Sofa") -> "$1800-2200 per sofa."
           [] it = PyStr("Chair") -> "$800-1200 per chair."
           [] it = PyStr("Cushion") -> "$450-650 per cushion."
           [] OTHER -> ""
    ELSE IF f.service_type = PyStr("Leather Cleaning & Conditioning")
    THEN CASE it = PyStr("Sofa") -> "$900-1200 per sofa."
           [] it = PyStr("Chair") -> "$600-800 per chair."
           [] it = PyStr("Cushion") -> "$450-650 per cushion."
           [] it = PyStr("Car") -> "$450-650 per seat."
           [] IsStrIn(it, {"Bag", "Coat"}) -> "$250-350 per item."
           [] OTHER -> ""
    ELSE IF f.service_type = PyStr("Leather Reupholstery")
    THEN CASE it = PyStr("Sofa") -> "$6500-8500 per sofa."
           [] it = PyStr("Chair") -> "$3500-4500 per chair."
           [] it = PyStr("Cushion") ->
                (IF f.cushions_detachable_fixed = PyStr("Detachable")
                 THEN "$850-1200 per cushion."
                 ELSE IF f.cushions_detachable_fixed = PyStr("Fixed")
                 THEN "$1200-1400 per cushion."
                 ELSE "")
           [] OTHER -> ""
    ELSE IF f.service_type = PyStr("Leather Dyeing (Color Change)")
    THEN CASE it = PyStr("Sofa") -> "$2500-2800 per Sofa."
           [] it = PyStr("Chair") -> "$1600-1800 per Chair."
           [] it = PyStr("Cushion") -> "$550-650 per Cushion."
           [] it = PyStr("Bag") -> "$350"
           [] it = PyStr("Coat") -> "$550"
           [] OTHER -> ""
    ELSE IF f.service_type = PyStr("Foam Replacement & Restuffing")
    THEN CASE it = PyStr("Sofa") ->
                "$1200-1500 per sofa. Additional labor cost."
           [] it = PyStr("Chair") ->
                "$850-950 per chair. Additional labor cost."
           [] it = PyStr("Cushion") ->
                "$350-450 per cushion. Additional labor cost."
           [] OTHER -> ""
    ELSE ""

CompletionBlock(f) ==
    IF f.service_type = PyStr("Leather Restoration") /\ f.item_type = PyStr("Car")
    THEN "1-day turnaround."
    ELSE IF f.service_type = PyStr("Leather Restoration")
            /\ IsStrIn(f.item_type, SofaChairCushion)
    THEN "2 weeks."
    ELSE IF IsStrIn(f.service_type, {"Leather Cleaning & Conditioning",
                                     "Leather Dyeing (Color Change)"})
            /\ IsStrIn(f.item_type, DyeItems)
    THEN "1-2 weeks."
    ELSE IF f.service_type = PyStr("Leather Reupholstery")
    THEN (IF IsStrIn(f.item_type, {"Sofa", "Chair"}) THEN "3-4 weeks."
          ELSE IF f.item_type = PyStr("Cushion") THEN "2 weeks."
          ELSE "")
    ELSE IF f.service_type = PyStr("Leather Dyeing (Color Change)")
            /\ IsStrIn(f.item_type, {"Sofa", "Chair", "Bag", "Coat"})
    THEN "2 weeks."
    ELSE IF f.service_type = PyStr("Foam Replacement & Restuffing")
            /\ IsStrIn(f.item_type, SofaChairCushion)
    THEN "2 weeks."
    ELSE ""

ShopAddress == "Service location:" \o NL \o "ReLeather" \o NL \o "Fullerton, CA 92831"
DropOffNote == "Drop-off by appointment. Non-local clients can ship items."
FreePickup == "Free Pick-up and delivery in Orange County."
PaidPickup(county_name) ==
    "Pick-up and delivery available in " \o county_name \o " for $200 (round trip)."
ShippingNote ==
    "Return shipping is quoted separately." \o NL \o NL \o "Shipping instructions follow."

\* variant: the shipping note is tested before the county
DeliveryBlock_ShippingBeforeCounty(f) ==
    IF f.service_type = PyStr("Leather Restoration") /\ f.item_type = PyStr("Car")
    THEN ShopAddress
    ELSE IF IsStrIn(f.service_type, {"Leather Restoration", "Leather Dyeing (Color Change)",
                                     "Leather Cleaning & Conditioning"})
            /\ IsStrIn(f.item_type, {"Bag", "Coat"})
    THEN DropOffNote
    ELSE IF InServiceArea(f.zip_code) /\ IsStrIn(f.item_type, {"Sofa", "Chair"})
    THEN FreePickup
    ELSE IF f.is_out_of_state THEN ShippingNote
    ELSE IF f.county_name # "" THEN PaidPickup(f.county_name)
    ELSE ""

\* variant: the free pick-up is granted to cushions as well
DeliveryBlock_FreeForCushion(f) ==
    IF f.service_type = PyStr("Leather Restoration") /\ f.item_type = PyStr("Car")
    THEN ShopAddress
    ELSE IF IsStrIn(f.service_type, {"Leather Restoration", "Leather Dyeing (Color Change)",
                                     "Leather Cleaning & Conditioning"})
            /\ IsStrIn(f.item_type, {"Bag", "Coat"})
    THEN DropOffNote
    ELSE IF InServiceArea(f.zip_code) /\ IsStrIn(f.item_type, {"Sofa", "Chair", "Cushion"})
    THEN FreePickup
    ELSE IF f.county_name # "" THEN PaidPickup(f.county_name)
    ELSE IF f.is_out_of_state THEN ShippingNote
    ELSE ""

DeliveryBlock(f) ==
    IF f.service_type = PyStr("Leather Restoration") /\ f.item_type = PyStr("Car")
    THEN ShopAddress
    ELSE IF IsStrIn(f.service_type, {"Leather Restoration", "Leather Dyeing (Color Change)",
                                     "Leather Cleaning & Conditioning"})
            /\ IsStrIn(f.item_type, {"Bag", "Coat"})
    THEN DropOffNote
    ELSE IF InServiceArea(f.zip_code) /\ IsStrIn(f.item_type, {"Sofa", "Chair"})
    THEN FreePickup
    ELSE IF f.county_name # "" THEN PaidPickup(f.county_name)
    ELSE IF f.is_out_of_state THEN ShippingNote
    ELSE ""

Blocks(f) ==
    [explanation |-> ExplanationBlock(f), disclaimer |-> DisclaimerBlock(f),
     estimate |-> EstimateBlock(f), completion |-> CompletionBlock(f),
     delivery |-> DeliveryBlock(f)]

\* variant: the subject depends on what the process has served before
EmailSubject_HiddenState(f) ==
    IF \E q \in DOMAIN result : result[q].kind # "none"
    THEN "ReLeather Service Inquiry"
    ELSE IF Truthy(f.service_type) THEN Fmt(f.service_type) \o " Estimate - ReLeather"
    ELSE "ReLeather Service Inquiry"

EmailSubject(f) ==
    IF Truthy(f.service_type) THEN Fmt(f.service_type) \o " Estimate - ReLeather"
    ELSE "ReLeather Service Inquiry"

PromptInstruction == "Here is the ReLeather Email Template:" \o NL \o "  " \o NL

\* the template part of gemini_prompt, with the fields and blocks filled in
TemplateText(f, b) ==
    "Hi " \o Fmt(f.customer_first_name) \o ", <br/>" \o NL
    \o "Thank you for your interest in ReLeather.<br/>" \o NL
    \o "We recommend our " \o Fmt(f.service_type) \o " for your "
    \o f.plural_item_type \o ".<br/>" \o NL
    \o b.explanation \o "<br/>" \o NL
    \o "Please note: " \o b.disclaimer \o "<br/>" \o NL
    \o "Estimated cost: " \o b.estimate \o ".<br/>" \o NL
    \o "Completion time: " \o b.completion \o "<br/>" \o NL
    \o b.delivery \o "<br/>" \o NL
    \o "Please feel free to contact us."

GeminiPrompt(f, b) == PromptInstruction \o TemplateText(f, b) \o NL \o "---"

\* ---------------------------------------------------------------------
\* Collaborators: text refiner, credential endpoint, mail provider
\* ---------------------------------------------------------------------
OUTLOOK_SENDER_EMAIL == "info@releather.com"
OUTLOOK_EMAIL_SIGNATURE == "<p>Best regards,<br/>ReLeather Team</p>"

\* a code fence; the character ^ stands for the backquote, which a TLA+
\* string cannot hold
FENCE == "^^^"

\* what model.generate_content(prompt).text can do
RefinerOutcomes == {"verbatim", "fenced", "trailing_newline", "raises"}

RefinerText(outcome, template) ==
    CASE outcome = "verbatim" -> template
      [] outcome = "fenced" -> FENCE \o "html" \o NL \o template \o NL \o FENCE
      [] outcome = "trailing_newline" -> template \o NL

IsLetter(c) ==
    LowerChar(c) \in {"a", "b", "c", "d", "e", "f", "g", "h", "i", "j", "k", "l", "m",
                      "n", "o", "p", "q", "r", "s", "t", "u", "v", "w", "x", "y", "z"}

RECURSIVE LetterRun(_, _)
LetterRun(s, i) == IF i <= Len(s) /\ IsLetter(CharAt(s, i)) THEN LetterRun(s, i + 1) ELSE i

\* length of the match of  FENCE [a-zA-Z]* \n  |  \n FENCE  at position j, or 0
FenceMatchLen(s, j) ==
    LET k == LetterRun(s, j + 3) IN
    IF j + 2 <= Len(s) /\ SubSeq(s, j, j + 2) = FENCE /\ k <= Len(s) /\ CharAt(s, k) = NL
    THEN k - j + 1
    ELSE IF j + 3 <= Len(s) /\ SubSeq(s, j, j + 3) = NL \o FENCE THEN 4
    ELSE 0

\* re.sub of that pattern by the empty string, scanning from position i:
\* the leftmost match is removed and the scan resumes behind it
RECURSIVE RemoveFencesFrom(_, _)
RemoveFencesFrom(s, i) ==
    LET M == {j \in i..Len(s) : FenceMatchLen(s, j) > 0} IN
    IF M = {} THEN SubSeq(s, i, Len(s))
    ELSE LET j == CHOOSE m \in M : \A n \in M : m <= n
         IN  SubSeq(s, i, j - 1) \o RemoveFencesFrom(s, j + FenceMatchLen(s, j))

RemoveFences(s) == RemoveFencesFrom(s, 1)

\* generated_email_body after clean-up, line-break replacement and signature
GeneratedEmailBody(text) ==
    replace(strip(RemoveFences(text)), NL, BR) \o "<br/><br/>" \o OUTLOOK_EMAIL_SIGNATURE

\* outcomes of the POST to the token endpoint
TokenOutcomes == {"ok", "http_error", "no_access_token", "network_error"}

\* get_access_token: the token, "" for None
get_access_token(outcome) == IF outcome = "ok" THEN "eyJ0eXAi" ELSE ""

AccessTokenLog(outcome) ==
    CASE outcome = "ok" -> <<"INFO Successfully obtained Microsoft Graph API access token.">>
      [] outcome = "http_error" ->
           <<"ERROR Failed to get access token. Status Code",
             "ERROR Error obtaining Graph API access token">>
      [] outcome = "no_access_token" ->
           <<"ERROR Failed to get access token. No access_token in response.">>
      [] outcome = "network_error" -> <<"ERROR Error obtaining Graph API access token">>

\* outcomes of the POST to the mail provider; an error reply carries a body
\* that is JSON or is not (a gateway's HTML page, an empty body)
DispatchOutcomes == {"ok", "network_error", "http_error_json", "http_error_not_json"}

\* create_outlook_draft: "true", "false", or "raises" when e.response.json()
\* fails inside the except block
create_outlook_draft(access_token, outcome) ==
    IF access_token = "" THEN "false"
    ELSE CASE outcome = "ok" -> "true"
           [] outcome = "network_error" -> "false"
           [] outcome = "http_error_json" -> "false"
           [] outcome = "http_error_not_json" -> "raises"

DraftLog(access_token, outcome) ==
    IF access_token = "" THEN <<"ERROR Cannot create Outlook draft: Missing access token.">>
    ELSE CASE outcome = "ok" -> <<"INFO Successfully created Outlook draft">>
           [] outcome = "network_error" -> <<"ERROR Failed to create Outlook draft">>
           [] outcome = "http_error_json" ->
                <<"ERROR Failed to create Outlook draft", "ERROR Graph API Error Response">>
           [] outcome = "http_error_not_json" -> <<"ERROR Failed to create Outlook draft">>

\* ---------------------------------------------------------------------
\* HTTP responses of the handler
\* ---------------------------------------------------------------------
NoHttp == [status |-> 0, shape |-> "", response |-> "", subject |-> "",
           customer_email |-> PyStr(""), error |-> ""]

ErrorResponse(status, error) ==
    [status |-> status, shape |-> "error", response |-> "", subject |-> "",
     customer_email |-> PyStr(""), error |-> error]

\* jsonify({"response", "subject", "customer_email"}) of a critical rule, or
\* jsonify({"data": {...}, "statusCode": 200}), 200 of the composed path
SuccessResponse(res, f) ==
    [status |-> 200, shape |-> IF res.kind = "critical" THEN "flat" ELSE "data",
     response |-> res.body, subject |-> res.subject,
     customer_email |-> f.customer_email, error |-> ""]

\* variant: the text of a critical rule is dispatched with its newlines
DraftBody_Unbroken(res) ==
    IF res.kind = "critical"
    THEN res.body \o OUTLOOK_EMAIL_SIGNATURE
    ELSE res.body

\* the body_html argument of create_outlook_draft
DraftBody(res) ==
    IF res.kind = "critical"
    THEN replace(res.body, NL, BR) \o OUTLOOK_EMAIL_SIGNATURE
    ELSE res.body

EmptyBlocks ==
    [explanation |-> "", disclaimer |-> "", estimate |-> "", completion |-> "",
     delivery |-> ""]

NoResult ==
    [kind |-> "none", rule |-> 0, subject |-> "", body |-> "", composed |-> FALSE,
     blocks |-> EmptyBlocks, prompt |-> ""]

\* ---------------------------------------------------------------------
\* Requests: the body of the POST and what request.get_json() makes of it
\* ---------------------------------------------------------------------
\* payload kinds: "ok" carries {"submission": {"questions": [...]}}
PayloadKinds ==
    {"ok", "empty_body", "not_json_type", "json_null", "empty_object",
     "no_submission", "no_questions", "submission_null"}

\* request.get_json(): "data", "none" or "raises".  An empty or malformed body
\* sent as application/json raises BadRequest; a body of another content type
\* yields None or raises, depending on the Flask release.
GetJsonOutcomes(payload) ==
    CASE payload = "empty_body" -> {"raises"}
      [] payload = "not_json_type" -> {"none", "raises"}
      [] OTHER -> {"data"}

\* the parsed body as the validity test sees it
Data(payload) ==
    [falsy |-> payload \in {"json_null", "empty_object"},
     hasSubmission |-> payload \in {"ok", "no_questions", "submission_null"},
     submissionIsNone |-> payload = "submission_null",
     hasQuestions |-> payload = "ok"]

\* 'questions' not in data.get('submission', {}) raises TypeError on None
ValidityRaises(d) == ~d.falsy /\ d.hasSubmission /\ d.submissionIsNone

\* not data or 'submission' not in data or 'questions' not in data.get(...)
InvalidData(d) == d.falsy \/ ~d.hasSubmission \/ ~d.hasQuestions

\* the answers of a form, as a list of questions; an absent answer is left out
Form(first, email, service, item, color, cushion, sofas, chairs, cushions, details, address, upload1, upload4) ==
    SelectSeq(<<[name |-> QFirstName, value |-> first],
                [name |-> QEmail, value |-> email],
                [name |-> QService, value |-> service],
                [name |-> QItem, value |-> item],
                [name |-> QColor, value |-> color],
                [name |-> QCushion, value |-> cushion],
                [name |-> QSofas, value |-> sofas],
                [name |-> QChairs, value |-> chairs],
                [name |-> QCushions, value |-> cushions],
                [name |-> QDetails, value |-> details],
                [name |-> QAddress, value |-> address],
                [name |-> UploadNames[1], value |-> upload1],
                [name |-> UploadNames[6], value |-> upload4]>>,
              LAMBDA q : q.value.t # "absent")

\* ---------------------------------------------------------------------
\* The submissions the model is run on
\* ---------------------------------------------------------------------
Answers(S) == {PyStr(x) : x \in S}

ServiceNames ==
    {"Leather Restoration", "Leather Cleaning & Conditioning", "Leather Reupholstery",
     "Leather Dyeing (Color Change)", "Foam Replacement & Restuffing", "Foam Replacement"}
ItemNames == {"Sofa", "Chair", "Cushion", "Car", "Bag", "Coat"}

Photo == PyStr("photo1.jpg")
Ann == PyStr("Ann")
AnnMail == PyStr("ann@example.com")

\* the bounds of the county ranges and of the service area
RangeBounds ==
    {90000, 90299, 90700, 90899, 91000, 91899, 93500, 93599, 92000, 92199, 92500,
     92599, 92300, 92499, 92857, 92859, 93000, 93099, 92600, 92899, 92200, 92299,
     93100, 93199}

BoundaryZips == {b + d : b \in RangeBounds, d \in (0 - ZipMargin)..ZipMargin}

ScenarioZips == {92801, 10001, 92860, 90500}

\* zipCode values: strings as the form sends them, JSON numbers, and values
\* int() cannot use
ZipValues ==
    {PyStr(StrOfInt(z)) : z \in BoundaryZips \cup ScenarioZips}
    \cup {PyInt(z) : z \in BoundaryZips \cup {0}}
    \cup {PyStr(""), PyStr("abc"), PyStr("92801-1234"), PyStr(" 92801 "), PyStr("-92801"),
          PyNone, PyAbsent, PyList(<<PyStr("92801")>>)}

CoreAddresses ==
    {PyAbsent}
    \cup {PyMap(z) : z \in {PyStr("abc"), PyStr("92801"), PyStr("10001"), PyStr("93050")}}

CountValues ==
    {PyStr(StrOfInt(n)) : n \in 0..MaxCount}
    \cup {PyAbsent, PyStr("two"), PyStr(""), PyInt(MaxCount), PyEmptyMap}

\* rule and block decisions against location, files and keywords
RuleForms ==
    {Form(Ann, AnnMail, sv, it, PyStr("Other"), cm, PyAbsent, PyAbsent, PyAbsent,
          PyStr(dt), ad, up, PyAbsent) :
        sv \in Answers(ServiceNames) \cup {PyAbsent},
        it \in Answers(ItemNames) \cup {PyAbsent},
        cm \in {PyStr("Fixed"), PyStr("Detachable"), PyAbsent},
        dt \in {"", "Bonded leather couch", "LOW-GRADE hide"},
        ad \in CoreAddresses,
        up \in {Photo, PyAbsent}}

\* every ZIP value against a few services and items
GeoForms ==
    {Form(Ann, AnnMail, sv, it, PyStr("Brown"), PyStr("Fixed"), PyAbsent, PyAbsent,
          PyAbsent, PyAbsent, PyMap(z), Photo, PyAbsent) :
        sv \in Answers({"Leather Restoration", "Leather Reupholstery"}),
        it \in Answers({"Sofa", "Cushion"}),
        z \in ZipValues}

\* counts and item names for the pluralized reference
CountForms ==
    {Form(Ann, AnnMail, PyStr("Leather Cleaning & Conditioning"), it, PyAbsent, PyAbsent,
          so, ch, cu, PyAbsent, PyMap(PyStr("92801")), Photo, PyAbsent) :
        it \in Answers(ItemNames \cup {"Ottoman", "sofa", "BAG"}) \cup {PyAbsent},
        so \in CountValues,
        ch \in {PyAbsent, PyStr("1")},
        cu \in {PyAbsent, PyStr("1")}}

\* names, recipients, colours, keywords in the item, blank or late uploads
OtherForms ==
    {Form(fn, em, sv, it, cl, PyAbsent, PyAbsent, PyAbsent, PyAbsent, PyStr(dt),
          PyMap(PyStr("92801")), u1, u4) :
        fn \in {Ann, PyStr(""), PyAbsent, PyNone},
        em \in {AnnMail, PyAbsent},
        sv \in Answers({"Leather Dyeing (Color Change)"}),
        it \in Answers({"Cushion", "Car", "Bonded Leather Sofa"}),
        cl \in {PyStr("Other"), PyStr("Brown"), PyList(<<PyStr("Tan"), PyNone, PyStr("Red")>>)},
        dt \in {"", "low-grade, maybe bonded", "Is it low grade or unbonded?"},
        u1 \in {Photo, PyStr("  "), PyList(<<>>)},
        u4 \in {PyAbsent, PyList(<<PyStr("a.jpg"), PyStr("b.jpg")>>)}}

\* answers of a type the form does not send
OddForms ==
    {Form(Ann, AnnMail, PyStr("Leather Restoration"), it, PyAbsent, PyAbsent, so, PyAbsent,
          PyAbsent, PyStr(dt), PyAbsent, u1, u4) :
        it \in {PyStr("Sofa"), PyMap(PyAbsent), PyEmptyMap},
        so \in {PyStr("1"), PyAbsent, PyMap(PyAbsent)},
        dt \in {"", "Bonded leather couch"},
        u1 \in {Photo, PyAbsent, PyMap(PyAbsent), PyEmptyMap},
        u4 \in {PyAbsent, PyMap(PyAbsent)}}
    \cup {Form(Ann, AnnMail, PyStr("Leather Restoration"), PyStr("Sofa"), PyAbsent,
               PyStr("Fixed"), PyAbsent, PyAbsent, PyAbsent, PyAbsent, ad, Photo, PyAbsent) :
            ad \in {PyStr("1 Main St, Brea 92821"), PyEmptyMap, PyNone,
                    PyList(<<PyStr("10001")>>)}}

Forms == RuleForms \cup GeoForms \cup CountForms \cup OtherForms \cup OddForms

Submissions ==
    {[payload |-> "ok", questions |-> q] : q \in Forms}
    \cup {[payload |-> p, questions |-> <<>>] : p \in PayloadKinds \ {"ok"}}

\* ---------------------------------------------------------------------
\* The handler as a state machine; one step per collaborator call
\* ---------------------------------------------------------------------
Reqs == DOMAIN sub

InitOf(R, S) ==
    /\ sub \in [R -> S]
    /\ pc = [r \in R |-> "start"]
    /\ fields = [r \in R |-> NoFields]
    /\ result = [r \in R |-> NoResult]
    /\ token = [r \in R |-> ""]
    /\ calls = [r \in R |-> <<>>]
    /\ sent = [r \in R |-> <<>>]
    /\ log = [r \in R |-> <<>>]
    /\ http = [r \in R |-> NoHttp]

Init == InitOf({1}, Submissions)

InternalError == ErrorResponse(500, "Internal server error")

\* the classification result of a critical rule
CriticalResult(i, f) ==
    [kind |-> "critical", rule |-> i, subject |-> CriticalSubject(i, f),
     body |-> CriticalBody(i, f), composed |-> FALSE, blocks |-> EmptyBlocks,
     prompt |-> ""]

\* the composed blocks, subject and prompt when no critical rule returned
ComposedResult(f) ==
    [kind |-> "composable", rule |-> 0, subject |-> EmailSubject(f), body |-> "",
     composed |-> TRUE, blocks |-> Blocks(f), prompt |-> GeminiPrompt(f, Blocks(f))]

\* variant: the refiner is called for a critical match as well
PcAfterClassify_AlwaysRefine(res) == "refine"

\* where the handler goes after classification
PcAfterClassify(res) == IF res.kind = "critical" THEN "acquire" ELSE "refine"

\* variant: a failure of the refiner is swallowed and the handler goes on
PcAfterRefine_Swallow(outcome) == "acquire"

\* where the handler goes once generate_content has returned or raised
PcAfterRefine(outcome) == IF outcome = "raises" THEN "done" ELSE "acquire"

\* variant: a failed acquisition is tried again
PcAfterAcquire_Retry(access_token) == IF access_token # "" THEN "dispatch" ELSE "acquire"

\* where the handler goes once get_access_token has returned
PcAfterAcquire(access_token) == IF access_token # "" THEN "dispatch" ELSE "done"

\* where the handler goes once create_outlook_draft has returned or raised
PcAfterDispatch(draft_created) == "done"

\* webhook() from the request to its first collaborator call: get_json, the
\* validity test, extraction, geo classification, the critical rules and,
\* when none returns, block composition and the prompt
Receive(r) ==
    /\ pc[r] = "start"
    /\ \E got \in GetJsonOutcomes(sub[r].payload), f \in {Extract(sub[r].questions)} :
       \E i \in {CriticalRule(f)} :
       \E res \in {IF i # 0 THEN CriticalResult(i, f) ELSE ComposedResult(f)} :
         LET d == Data(sub[r].payload)
         IN  IF got = "raises" \/ (got = "data" /\ ValidityRaises(d))
             THEN /\ http' = [http EXCEPT ![r] = InternalError]
                  /\ log' = [log EXCEPT ![r] = @ \o <<"ERROR Error processing webhook">>]
                  /\ pc' = [pc EXCEPT ![r] = "done"]
                  /\ UNCHANGED <<fields, result>>
             ELSE IF got = "none" \/ InvalidData(d)
             THEN /\ http' = [http EXCEPT ![r] = ErrorResponse(400, "Invalid webhook data")]
                  /\ log' = [log EXCEPT ![r] = @ \o <<"WARNING Invalid webhook data received">>]
                  /\ pc' = [pc EXCEPT ![r] = "done"]
                  /\ UNCHANGED <<fields, result>>
             ELSE IF f.raised
             THEN /\ http' = [http EXCEPT ![r] = InternalError]
                  /\ log' = [log EXCEPT ![r] = @ \o <<"ERROR Error processing webhook">>]
                  /\ pc' = [pc EXCEPT ![r] = "done"]
                  /\ UNCHANGED <<fields, result>>
             ELSE /\ fields' = [fields EXCEPT ![r] = f]
                  /\ result' = [result EXCEPT ![r] = res]
                  /\ log' = [log EXCEPT ![r] =
                        @ \o (IF i # 0 THEN <<"INFO " \o TriggerLog(i)>>
                              ELSE <<"INFO Sending prompt to Gemini API...">>)]
                  /\ pc' = [pc EXCEPT ![r] = PcAfterClassify(res)]
                  /\ UNCHANGED http
    /\ UNCHANGED <<sub, token, calls, sent>>

\* model.generate_content(gemini_prompt) and the clean-up of its text
Refine(r) ==
    /\ pc[r] = "refine"
    /\ calls' = [calls EXCEPT ![r] = Append(@, "refine")]
    /\ \E outcome \in RefinerOutcomes :
         IF outcome = "raises"
         THEN /\ http' = [http EXCEPT ![r] = InternalError]
              /\ log' = [log EXCEPT ![r] = @ \o <<"ERROR Error processing webhook">>]
              /\ pc' = [pc EXCEPT ![r] = PcAfterRefine(outcome)]
              /\ UNCHANGED result
         ELSE /\ \E generated_email_body \in
                       {GeneratedEmailBody(RefinerText(outcome,
                            TemplateText(fields[r], result[r].blocks)))} :
                    result' = [result EXCEPT ![r].body = generated_email_body]
              /\ log' = [log EXCEPT ![r] = @ \o <<"INFO Received raw email body from Gemini">>]
              /\ pc' = [pc EXCEPT ![r] = PcAfterRefine(outcome)]
              /\ UNCHANGED http
    /\ UNCHANGED <<sub, fields, token, sent>>

\* get_access_token and, when it yields no token, the return of the response
Acquire(r) ==
    /\ pc[r] = "acquire"
    /\ calls' = [calls EXCEPT ![r] = Append(@, "acquire")]
    /\ \E outcome \in TokenOutcomes :
         LET access_token == get_access_token(outcome) IN
         /\ token' = [token EXCEPT ![r] = access_token]
         /\ pc' = [pc EXCEPT ![r] = PcAfterAcquire(access_token)]
         /\ IF access_token # ""
            THEN /\ log' = [log EXCEPT ![r] = @ \o AccessTokenLog(outcome)]
                 /\ UNCHANGED http
            ELSE /\ log' = [log EXCEPT ![r] = @ \o AccessTokenLog(outcome)
                        \o <<"ERROR Could not obtain access token for Microsoft Graph API.">>]
                 /\ http' = [http EXCEPT ![r] = SuccessResponse(result[r], fields[r])]
    /\ UNCHANGED <<sub, fields, result, sent>>

\* variant: the subject is kept in a variable shared by all requests, so a
\* dispatch may send the subject another request has written
Dispatch_SharedSubject(r) ==
    /\ pc[r] = "dispatch"
    /\ calls' = [calls EXCEPT ![r] = Append(@, "dispatch")]
    /\ \E body_html \in {DraftBody(result[r])}, q \in {x \in Reqs : result[x].kind # "none"} :
         sent' = [sent EXCEPT ![r] = Append(@,
            [sender |-> OUTLOOK_SENDER_EMAIL, recipient |-> fields[r].customer_email,
             subject |-> result[q].subject, body |-> body_html])]
    /\ \E outcome \in DispatchOutcomes :
         LET draft_created == create_outlook_draft(token[r], outcome) IN
         /\ pc' = [pc EXCEPT ![r] = PcAfterDispatch(draft_created)]
         /\ IF draft_created = "raises"
            THEN /\ log' = [log EXCEPT ![r] = @ \o DraftLog(token[r], outcome)
                        \o <<"ERROR Error processing webhook">>]
                 /\ http' = [http EXCEPT ![r] = InternalError]
            ELSE /\ log' = [log EXCEPT ![r] = @ \o DraftLog(token[r], outcome)
                        \o (IF draft_created = "true"
                            THEN <<"INFO Outlook draft successfully created">>
                            ELSE <<"ERROR Failed to create Outlook draft. Check Graph API configuration">>)]
                 /\ http' = [http EXCEPT ![r] = SuccessResponse(result[r], fields[r])]
    /\ UNCHANGED <<sub, fields, result, token>>

\* create_outlook_draft and the return of the response
Dispatch(r) ==
    /\ pc[r] = "dispatch"
    /\ calls' = [calls EXCEPT ![r] = Append(@, "dispatch")]
    /\ \E body_html \in {DraftBody(result[r])} :
         sent' = [sent EXCEPT ![r] = Append(@,
            [sender |-> OUTLOOK_SENDER_EMAIL, recipient |-> fields[r].customer_email,
             subject |-> result[r].subject, body |-> body_html])]
    /\ \E outcome \in DispatchOutcomes :
         LET draft_created == create_outlook_draft(token[r], outcome) IN
         /\ pc' = [pc EXCEPT ![r] = PcAfterDispatch(draft_created)]
         /\ IF draft_created = "raises"
            THEN /\ log' = [log EXCEPT ![r] = @ \o DraftLog(token[r], outcome)
                        \o <<"ERROR Error processing webhook">>]
                 /\ http' = [http EXCEPT ![r] = InternalError]
            ELSE /\ log' = [log EXCEPT ![r] = @ \o DraftLog(token[r], outcome)
                        \o (IF draft_created = "true"
                            THEN <<"INFO Outlook draft successfully created">>
                            ELSE <<"ERROR Failed to create Outlook draft. Check Graph API configuration">>)]
                 /\ http' = [http EXCEPT ![r] = SuccessResponse(result[r], fields[r])]
    /\ UNCHANGED <<sub, fields, result, token>>

Next == \E r \in Reqs : Receive(r) \/ Refine(r) \/ Acquire(r) \/ Dispatch(r)

Spec == Init /\ [][Next]_vars

\* ---------------------------------------------------------------------
\* Two requests served at the same time (the server runs one handler per
\* request, in any interleaving of their collaborator calls)
\* ---------------------------------------------------------------------
Bob == PyStr("Bob")
BobMail == PyStr("bob@example.com")

\* a bonded inquiry, a composable one of another customer, one more of the
\* first customer without uploads, and a body without submission
ConcurrentSubmissions ==
    {[payload |-> "ok",
      questions |-> Form(Ann, AnnMail, PyStr("Leather Restoration"), PyStr("Sofa"), PyAbsent,
                         PyStr("Fixed"), PyAbsent, PyAbsent, PyAbsent,
                         PyStr("Bonded leather couch"), PyMap(PyStr("10001")), PyAbsent,
                         PyAbsent)],
     [payload |-> "ok",
      questions |-> Form(Bob, BobMail, PyStr("Leather Dyeing (Color Change)"),
                         PyStr("Cushion"), PyStr("Other"), PyAbsent, PyAbsent, PyAbsent,
                         PyStr("2"), PyAbsent, PyMap(PyStr("92801")), Photo, PyAbsent)],
     [payload |-> "ok",
      questions |-> Form(Ann, AnnMail, PyStr("Leather Restoration"), PyStr("Chair"), PyAbsent,
                         PyAbsent, PyAbsent, PyAbsent, PyAbsent, PyAbsent,
                         PyMap(PyStr("92801")), Photo, PyAbsent)],
     [payload |-> "no_submission", questions |-> <<>>]}

ConcurrentInit == InitOf({1, 2}, ConcurrentSubmissions)

ConcurrentSpec == ConcurrentInit /\ [][Next]_vars

\* ---------------------------------------------------------------------
\* Shape of the state
\* ---------------------------------------------------------------------
\* every request is at one of the handler's five positions
TypeOK == \A r \in Reqs : pc[r] \in {"start", "refine", "acquire", "dispatch", "done"}

\* ---------------------------------------------------------------------
\* Vocabulary of the properties
\* ---------------------------------------------------------------------
Range(seq) == {seq[k] : k \in DOMAIN seq}

Count(seq, x) == Cardinality({k \in DOMAIN seq : seq[k] = x})

\* a submission as the form sends it: every answer is text, a number, a list
\* or null; only the address is a map
WellFormed(s) ==
    /\ s.payload = "ok"
    /\ \A k \in DOMAIN s.questions :
         s.questions[k].name # QAddress
            => s.questions[k].value.t \in {"str", "int", "list", "none"}

RuleHolds(i, f) ==
    CASE i = 1 -> Rule1(f) [] i = 2 -> Rule2(f) [] i = 3 -> Rule3(f) [] i = 4 -> Rule4(f)
      [] i = 5 -> Rule5(f) [] i = 6 -> Rule6(f) [] i = 7 -> Rule7(f) [] i = 8 -> Rule8(f)

NoKeyword(f) == ~Rule1(f) /\ ~Rule2(f)

\* the handler has extracted the fields of request r and classified them
Classified(r) == fields[r].extracted /\ result[r].kind # "none"

\* ---------------------------------------------------------------------
\* C1: every well-formed submission whose lowercased "service item details"
\* text contains "bonded" is extracted without an exception and gets the
\* bonded critical match (rule 1, its subject and its body), whatever the
\* uploads, the ZIP, the cushion mode and the counts are.
\* ---------------------------------------------------------------------
C1_BondedAlwaysWins ==
    \A r \in Reqs :
        (pc[r] # "start" /\ WellFormed(sub[r])) =>
            /\ Classified(r)
            /\ Contains("bonded", fields[r].full_text_data) =>
                 /\ result[r].kind = "critical"
                 /\ result[r].rule = 1
                 /\ result[r].subject = "ReLeather Inquiry - Bonded/Faux Leather"
                 /\ result[r].body = CriticalBody(1, fields[r])

\* a bonded submission without uploads and with an out-of-area ZIP (rule 3
\* holds as well) was classified as rule 1
C1_Witness ==
    \E r \in Reqs :
        /\ WellFormed(sub[r])
        /\ Classified(r)
        /\ Contains("bonded", fields[r].full_text_data)
        /\ ~fields[r].any_files_uploaded
        /\ fields[r].is_out_of_state
        /\ result[r].rule = 1

\* ---------------------------------------------------------------------
\* C2: the classification result is that of the lowest-numbered critical rule
\* whose predicate (as the handler tests it) holds, with that rule's subject
\* and body and only that rule's log line; it is composable iff no predicate
\* holds.  Without uploads and without keyword the result is rule 3 whatever
\* rules 4 to 8 say, and Leather Restoration / Sofa / Fixed / 10001 with
\* uploads and without keyword is rule 4.
\* ---------------------------------------------------------------------
C2_FirstRuleWins ==
    \A r \in Reqs :
        Classified(r) =>
            LET f == fields[r]
                M == {i \in 1..8 : RuleHolds(i, f)}
            IN  /\ (M = {}) <=> (result[r].kind = "composable")
                /\ M # {} =>
                     /\ result[r].kind = "critical"
                     /\ \A i \in M : result[r].rule <= i
                     /\ result[r].rule \in M
                     /\ result[r].subject = CriticalSubject(result[r].rule, f)
                     /\ result[r].body = CriticalBody(result[r].rule, f)
                     /\ \A i \in 1..8 :
                          ("INFO " \o TriggerLog(i)) \in Range(log[r]) <=> i = result[r].rule
                /\ (NoKeyword(f) /\ ~f.any_files_uploaded) => result[r].rule = 3
                /\ ( /\ NoKeyword(f) /\ f.any_files_uploaded
                     /\ f.service_type = PyStr("Leather Restoration")
                     /\ f.item_type = PyStr("Sofa")
                     /\ f.cushions_detachable_fixed = PyStr("Fixed")
                     /\ f.zip_code = <<10001>> )
                   => /\ result[r].rule = 4
                      /\ result[r].subject = "ReLeather Inquiry - Out-of-State Service"

\* Leather Restoration / Sofa / Fixed / 10001 with uploads: rules 4 and 6 both
\* hold and the result is rule 4
C2_Witness ==
    \E r \in Reqs :
        /\ Classified(r)
        /\ fields[r].zip_code = <<10001>>
        /\ fields[r].service_type = PyStr("Leather Restoration")
        /\ Rule4(fields[r]) /\ Rule6(fields[r])
        /\ result[r].rule = 4

\* ---------------------------------------------------------------------
\* C3: a request whose payload lacks the submission structure ends with a
\* 400 response and reaches neither extraction, classification, refinement,
\* credential acquisition nor dispatch.
\* ---------------------------------------------------------------------
C3_MalformedRejectedWith400 ==
    \A r \in Reqs :
        (pc[r] = "done" /\ sub[r].payload # "ok") =>
            /\ http[r].status = 400
            /\ ~fields[r].extracted
            /\ result[r].kind = "none"
            /\ calls[r] = <<>>
            /\ sent[r] = <<>>

\* ---------------------------------------------------------------------
\* C4: whatever the outcome of credential acquisition and of draft dispatch,
\* the request ends with the response it has when both succeed: status 200
\* with the subject, text and customer_email of the result; every failure
\* leaves an ERROR record in the log.
\* ---------------------------------------------------------------------
C4_CollaboratorFailureNonFatal ==
    \A r \in Reqs :
        (pc[r] = "done" /\ "acquire" \in Range(calls[r])) =>
            /\ http[r] = SuccessResponse(result[r], fields[r])
            /\ ("INFO Outlook draft successfully created" \notin Range(log[r]))
                  => \E k \in DOMAIN log[r] : SubSeq(log[r][k], 1, 5) = "ERROR"

\* ---------------------------------------------------------------------
\* C5: per request the credential is acquired at most once and only once the
\* result (subject and body) is fixed, the draft is dispatched at most once
\* and only with a token, and after a failed acquisition or after a dispatch
\* the request makes no further call: nothing is retried.
\* ---------------------------------------------------------------------
CallsInOrder(r) ==
    LET c == calls[r] IN
    /\ Count(c, "acquire") <= 1
    /\ Count(c, "dispatch") <= 1
    /\ Len(sent[r]) = Count(c, "dispatch")
    /\ "dispatch" \in Range(c) =>
         /\ Len(c) >= 2 /\ c[Len(c)] = "dispatch" /\ c[Len(c) - 1] = "acquire"
         /\ token[r] # ""
         /\ pc[r] = "done"
    /\ "acquire" \in Range(c) =>
         /\ Classified(r)
         /\ result[r].subject # ""
         /\ result[r].body # ""
         /\ result[r].kind = "composable" => c[1] = "refine"
         /\ result[r].kind = "critical" => c[1] = "acquire"
    /\ ("acquire" \in Range(c) /\ token[r] = "") =>
         /\ pc[r] = "done"
         /\ c[Len(c)] = "acquire"

CallStepOk(r) ==
    /\ "acquire" \in Range(calls'[r]) => result'[r] = result[r]
    /\ pc[r] = "done" => (calls'[r] = calls[r] /\ sent'[r] = sent[r] /\ http'[r] = http[r])

C5_DispatchAtMostOnce ==
    /\ [](\A r \in Reqs : CallsInOrder(r))
    /\ [][\A r \in Reqs : CallStepOk(r)]_vars

\* a dispatch failed and the request ended after one acquisition and one
\* dispatch
C5_Witness ==
    \E r \in Reqs :
        /\ pc[r] = "done"
        /\ calls[r] = <<"refine", "acquire", "dispatch">>
        /\ "ERROR Failed to create Outlook draft" \in Range(log[r])
        /\ Len(sent[r]) = 1

\* ---------------------------------------------------------------------
\* C6: on a critical match no block is composed, no prompt is built and the
\* refiner is never called; the text returned is the rule's template and the
\* text dispatched is that template with its line breaks as <br/> and the
\* signature appended.  Blocks are composed and the refiner is called only
\* when no critical rule's predicate holds.
\* ---------------------------------------------------------------------
C6_CriticalBypassesComposition ==
    \A r \in Reqs :
        LET f == fields[r]
            res == result[r]
        IN  /\ res.kind = "critical" =>
                 /\ ~res.composed
                 /\ res.blocks = EmptyBlocks
                 /\ res.prompt = ""
                 /\ "refine" \notin Range(calls[r])
                 /\ res.body = CriticalBody(res.rule, f)
                 /\ \A k \in DOMAIN sent[r] :
                      sent[r][k].body =
                          replace(CriticalBody(res.rule, f), NL, BR) \o OUTLOOK_EMAIL_SIGNATURE
                 /\ http[r].status = 200 => http[r].response = CriticalBody(res.rule, f)
            /\ (res.composed \/ "refine" \in Range(calls[r])) =>
                 /\ res.kind = "composable"
                 /\ res.prompt = GeminiPrompt(f, res.blocks)
                 /\ \A i \in 1..8 : ~RuleHolds(i, f)

\* a critical match whose draft was dispatched and whose text was returned
C6_Witness ==
    \E r \in Reqs :
        /\ result[r].kind = "critical"
        /\ result[r].rule = 4
        /\ Len(sent[r]) = 1
        /\ http[r].status = 200

\* ---------------------------------------------------------------------
\* Vocabulary of the location properties
\* ---------------------------------------------------------------------
\* rule i's predicate with its out-of-area condition granted: the service,
\* item and cushion conditions alone
AreaRuleShape(i, f) == RuleHolds(i, [f EXCEPT !.is_out_of_state = TRUE])

\* the lowest of the rules 4, 5, 6 whose service, item and cushion conditions
\* hold, 0 when none does
FirstAreaRule(f) ==
    IF AreaRuleShape(4, f) THEN 4
    ELSE IF AreaRuleShape(5, f) THEN 5
    ELSE IF AreaRuleShape(6, f) THEN 6
    ELSE 0

\* the ZIP was parsed and lies outside 90000..92899
ZipOutside(f) == f.zip_code # <<>> /\ (f.zip_code[1] < 90000 \/ f.zip_code[1] > 92899)

\* the request's address answer carries this zipCode
HasZipCode(s, z) ==
    \E k \in DOMAIN s.questions :
        s.questions[k].name = QAddress /\ s.questions[k].value = PyMap(z)

\* the patina clause is due: reupholstery of a sofa, chair or cushion
PatinaDue(f) ==
    f.service_type = PyStr("Leather Reupholstery") /\ IsStrIn(f.item_type, SofaChairCushion)

\* ---------------------------------------------------------------------
\* C7 (as claimed): a submission without a usable ZIP has county "" and is
\* out of the service area for the rules, so that with files uploaded and no
\* keyword the first of rules 4, 5, 6 whose service, item and cushion
\* conditions hold gives its out-of-area response.
\* ---------------------------------------------------------------------
C7_NoZipIsOutOfArea ==
    \A r \in Reqs :
        (Classified(r) /\ fields[r].zip_code = <<>>) =>
            LET f == fields[r] IN
            /\ f.county_name = ""
            /\ (NoKeyword(f) /\ f.any_files_uploaded /\ FirstAreaRule(f) # 0) =>
                 /\ result[r].kind = "critical"
                 /\ result[r].rule = FirstAreaRule(f)

\* ---------------------------------------------------------------------
\* C7 (amended): the out-of-area condition of rules 4, 5, 6 and of the
\* mail-in clause holds iff the ZIP is present and lies outside
\* [90000, 92899].  A well-formed submission whose ZIP is absent or is text
\* that is no integer is classified without failing, with no ZIP, county ""
\* and the condition false: it never gets rule 4, 5 or 6 nor the mail-in
\* clause.  With files uploaded, no keyword and a ZIP outside the range, the
\* first of rules 4, 5, 6 whose service, item and cushion conditions hold
\* gives its response.
\* ---------------------------------------------------------------------
C7_OutOfAreaNeedsZip ==
    \A r \in Reqs :
        /\ (pc[r] # "start" /\ WellFormed(sub[r])) => Classified(r)
        /\ Classified(r) =>
            LET f == fields[r]
                res == result[r]
            IN  /\ f.is_out_of_state <=> ZipOutside(f)
                /\ f.zip_code = <<>> =>
                     /\ f.county_name = ""
                     /\ ~f.is_out_of_state
                     /\ res.rule \notin {4, 5, 6}
                /\ (HasZipCode(sub[r], PyStr("abc")) \/ HasZipCode(sub[r], PyStr(""))
                      \/ HasZipCode(sub[r], PyAbsent) \/ HasZipCode(sub[r], PyNone))
                     => f.zip_code = <<>>
                /\ res.rule \in {4, 5, 6} => (ZipOutside(f) /\ res.rule = FirstAreaRule(f))
                /\ (NoKeyword(f) /\ f.any_files_uploaded /\ FirstAreaRule(f) # 0
                      /\ ZipOutside(f))
                     => /\ res.kind = "critical"
                        /\ res.rule = FirstAreaRule(f)
                        /\ res.body = CriticalBody(FirstAreaRule(f), f)
                /\ (res.kind = "composable" /\ PatinaDue(f)) =>
                     res.blocks.disclaimer =
                         PatinaWarning \o (IF ZipOutside(f) THEN MailInClause ELSE "")

\* Leather Restoration / Sofa / Fixed with files and the ZIP text "abc": the
\* conditions of rule 4 hold but for the ZIP, and the blocks were composed
C7_Witness ==
    \E r \in Reqs :
        /\ Classified(r)
        /\ HasZipCode(sub[r], PyStr("abc"))
        /\ fields[r].zip_code = <<>>
        /\ fields[r].any_files_uploaded
        /\ NoKeyword(fields[r])
        /\ FirstAreaRule(fields[r]) = 4
        /\ result[r].kind = "composable"

\* ---------------------------------------------------------------------
\* C8 (as claimed): ZIP 92860 resolves to "San Bernardino County".
\* ---------------------------------------------------------------------
C8_Zip92860IsSanBernardino ==
    \A r \in Reqs :
        (Classified(r) /\ fields[r].zip_code = <<92860>>) =>
            fields[r].county_name = "San Bernardino County"

\* ---------------------------------------------------------------------
\* C8 (amended): ZIP 92860 resolves to "Orange County": the second range of
\* table entry 4 ends at 92859, so entry 6 (92600-92899) is the first entry
\* that matches; 92859 is the last ZIP entry 4 takes from the Orange range.
\* ---------------------------------------------------------------------
C8_Zip92860IsOrange ==
    \A r \in Reqs :
        Classified(r) =>
            /\ fields[r].zip_code = <<92860>> =>
                 /\ fields[r].county_name = "Orange County"
                 /\ ~fields[r].is_out_of_state
            /\ fields[r].zip_code = <<92859>> =>
                 fields[r].county_name = "San Bernardino County"

\* a submission with ZIP 92860 was classified
C8_Witness ==
    \E r \in Reqs :
        /\ Classified(r)
        /\ HasZipCode(sub[r], PyStr("92860"))
        /\ fields[r].zip_code = <<92860>>
        /\ fields[r].county_name = "Orange County"

\* ---------------------------------------------------------------------
\* The county table as the specification lists it: priority, inclusive
\* ranges, county
\* ---------------------------------------------------------------------
CountyTable ==
    << [ranges |-> {<<90000, 90299>>, <<90700, 90899>>, <<91000, 91899>>, <<93500, 93599>>},
        county |-> "Los Angeles"],
       [ranges |-> {<<92000, 92199>>}, county |-> "San Diego"],
       [ranges |-> {<<92500, 92599>>}, county |-> "Riverside"],
       [ranges |-> {<<92300, 92499>>, <<92857, 92859>>}, county |-> "San Bernardino"],
       [ranges |-> {<<93000, 93099>>}, county |-> "Ventura"],
       [ranges |-> {<<92600, 92899>>}, county |-> "Orange"],
       [ranges |-> {<<92200, 92299>>}, county |-> "Imperial"],
       [ranges |-> {<<93100, 93199>>}, county |-> "Santa Barbara"] >>

\* the entries of the table that match z
Matching(z) ==
    {k \in DOMAIN CountyTable : \E g \in CountyTable[k].ranges : g[1] <= z /\ z <= g[2]}

\* the label of the first matching entry, "" when none matches
TableCounty(z) ==
    IF Matching(z) = {} THEN ""
    ELSE CountyTable[CHOOSE k \in Matching(z) : \A j \in Matching(z) : k <= j].county
         \o " County"

\* ---------------------------------------------------------------------
\* C9: for every present ZIP the county is the label of the first matching
\* entry of the eight-entry table and "" when none matches; each ZIP of
\* 92857-92859 is San Bernardino though it lies in the Orange range, 92801 is
\* in the service area with "Orange County", and 10001 is out of it with "".
\* ---------------------------------------------------------------------
C9_FirstMatchingCounty ==
    \A r \in Reqs :
        (Classified(r) /\ fields[r].zip_code # <<>>) =>
            LET f == fields[r]
                z == f.zip_code[1]
            IN  /\ Len(CountyTable) = 8
                /\ f.county_name = TableCounty(z)
                /\ z \in 92857..92859 =>
                     /\ Matching(z) = {4, 6}
                     /\ f.county_name = "San Bernardino County"
                /\ z = 92801 => (~f.is_out_of_state /\ f.county_name = "Orange County")
                /\ z = 10001 => (f.is_out_of_state /\ f.county_name = "")

\* a ZIP of 92857-92859, matched by entries 4 and 6, was classified
C9_Witness ==
    \E r \in Reqs :
        /\ Classified(r)
        /\ fields[r].zip_code # <<>>
        /\ fields[r].zip_code[1] \in 92857..92859
        /\ Matching(fields[r].zip_code[1]) = {4, 6}
        /\ fields[r].county_name = "San Bernardino County"

\* ---------------------------------------------------------------------
\* Leather Dyeing (Color Change) / Cushion / colour "Other" / 92801 with files
\* uploaded and no keyword
\* ---------------------------------------------------------------------
DyeCushionScenario(f) ==
    /\ f.service_type = PyStr("Leather Dyeing (Color Change)")
    /\ f.item_type = PyStr("Cushion")
    /\ f.color_selection = PyStr("Other")
    /\ f.zip_code = <<92801>>
    /\ f.any_files_uploaded
    /\ NoKeyword(f)

\* ---------------------------------------------------------------------
\* C10 (as claimed): in the scenario no critical rule matches and the
\* delivery block states the free Orange-County pick-up and delivery.
\* ---------------------------------------------------------------------
C10_DyeCushionFreePickup ==
    \A r \in Reqs :
        (Classified(r) /\ DyeCushionScenario(fields[r])) =>
            /\ result[r].kind = "composable"
            /\ result[r].blocks.delivery = FreePickup

\* ---------------------------------------------------------------------
\* C10 (amended): in the scenario no critical rule matches and the delivery
\* block states the paid pick-up and delivery in Orange County ($200 round
\* trip): the free pick-up is for sofas and chairs only.
\* ---------------------------------------------------------------------
C10_DyeCushionPaidPickup ==
    \A r \in Reqs :
        (Classified(r) /\ DyeCushionScenario(fields[r])) =>
            /\ result[r].kind = "composable"
            /\ result[r].rule = 0
            /\ result[r].blocks.delivery =
                 "Pick-up and delivery available in Orange County for $200 (round trip)."
            /\ result[r].blocks.delivery # FreePickup

\* the scenario was classified and its blocks composed
C10_Witness ==
    \E r \in Reqs :
        /\ Classified(r)
        /\ DyeCushionScenario(fields[r])
        /\ result[r].composed
        /\ result[r].blocks.delivery # ""

\* ---------------------------------------------------------------------
\* Vocabulary of the delivery chain
\* ---------------------------------------------------------------------
\* the ZIP was parsed and lies in 90000..92899
ZipInside(f) == f.zip_code # <<>> /\ 90000 <= f.zip_code[1] /\ f.zip_code[1] <= 92899

\* the alternatives of the delivery chain in priority order, each with its
\* condition and its text; outOfArea is the condition of the fourth
DeliveryAlternatives(f, outOfArea) ==
    << [when |-> f.service_type = PyStr("Leather Restoration") /\ f.item_type = PyStr("Car"),
        text |-> ShopAddress],
       [when |-> IsStrIn(f.service_type, {"Leather Restoration", "Leather Dyeing (Color Change)",
                                          "Leather Cleaning & Conditioning"})
                 /\ IsStrIn(f.item_type, {"Bag", "Coat"}),
        text |-> DropOffNote],
       [when |-> ZipInside(f) /\ IsStrIn(f.item_type, {"Sofa", "Chair"}),
        text |-> "Free Pick-up and delivery in Orange County."],
       [when |-> f.county_name # "",
        text |-> "Pick-up and delivery available in " \o f.county_name
                 \o " for $200 (round trip)."],
       [when |-> outOfArea, text |-> ShippingNote],
       [when |-> TRUE, text |-> ""] >>

\* the text of the first alternative whose condition holds
FirstAlternative(alts) ==
    alts[CHOOSE k \in DOMAIN alts :
            alts[k].when /\ \A j \in DOMAIN alts : alts[j].when => k <= j].text

\* ---------------------------------------------------------------------
\* C11 (as claimed): the delivery block of a composable request is the text
\* of the first alternative that applies of: shop address or drop-off note
\* for the shop-only services, free pick-up in the service area for a sofa or
\* chair, paid pick-up for a resolved county, shipping note when not in the
\* service area (a missing ZIP included), empty.
\* ---------------------------------------------------------------------
C11_DeliveryChainNotInArea ==
    \A r \in Reqs :
        result[r].kind = "composable" =>
            result[r].blocks.delivery =
                FirstAlternative(DeliveryAlternatives(fields[r], ~ZipInside(fields[r])))

\* ---------------------------------------------------------------------
\* C11 (amended): the same chain, whose fourth alternative applies when the
\* ZIP is present and lies outside [90000, 92899]; a request without a usable
\* ZIP that is not for a shop-only service gets the empty block.  Exactly one
\* alternative gives the block and an earlier one wins over a later one.
\* ---------------------------------------------------------------------
C11_DeliveryChain ==
    \A r \in Reqs :
        result[r].kind = "composable" =>
            LET f == fields[r]
                alts == DeliveryAlternatives(f, ZipOutside(f))
                d == result[r].blocks.delivery
            IN  /\ d = FirstAlternative(alts)
                /\ \A k \in 1..5 :
                     (alts[k].when /\ \A j \in 1..(k - 1) : ~alts[j].when) => d = alts[k].text
                /\ (f.zip_code = <<>> /\ ~alts[1].when /\ ~alts[2].when) => d = ""

\* a composable request with a county outside the service area: the third
\* and the fourth alternative both apply and the block is the paid pick-up
C11_Witness ==
    \E r \in Reqs :
        /\ result[r].kind = "composable"
        /\ fields[r].county_name # ""
        /\ fields[r].is_out_of_state
        /\ result[r].blocks.delivery = PaidPickup(fields[r].county_name)

\* ---------------------------------------------------------------------
\* Vocabulary of the pluralized reference
\* ---------------------------------------------------------------------
\* the raw answer to a question of submission s, PyAbsent when there is none
Answer(s, name) ==
    IF \E k \in DOMAIN s.questions : s.questions[k].name = name
    THEN s.questions[CHOOSE k \in DOMAIN s.questions : s.questions[k].name = name].value
    ELSE PyAbsent

\* a count: the number when the raw text consists of digits only, else 0
ExpectedCount(v) ==
    CASE v.t = "str" ->
           IF v.s # "" /\ \A i \in 1..Len(v.s) : CharAt(v.s, i) \in DigitChars
           THEN DigitsValue(v.s, 0) ELSE 0
      [] v.t = "int" -> IF v.n >= 0 THEN v.n ELSE 0
      [] OTHER -> 0

ExpectedTotal(s) ==
    ExpectedCount(Answer(s, QSofas)) + ExpectedCount(Answer(s, QChairs))
    + ExpectedCount(Answer(s, QCushions))

\* the fixed plural map, keyed by the lowercased item type
PluralMap ==
    {<<"sofa", "sofas">>, <<"chair", "chairs">>, <<"cushion", "cushions">>,
     <<"bag", "bags">>, <<"coat", "coats">>, <<"car", "cars">>}

ExpectedPlural(itemType, totalExplicit) ==
    LET l == lower(itemType) IN
    IF totalExplicit > 1
    THEN (IF \E p \in PluralMap : p[1] = l
          THEN (CHOOSE p \in PluralMap : p[1] = l)[2]
          ELSE itemType \o "s")
    ELSE IF totalExplicit = 1 THEN itemType
    ELSE IF l \in {"bag", "coat", "car"} THEN itemType \o "s"
    ELSE itemType

\* ---------------------------------------------------------------------
\* C12 (as claimed): the pluralized reference is that function of itemType
\* and of the total of the three counts, for every itemType.
\* ---------------------------------------------------------------------
C12_PluralOfAnyItem ==
    \A r \in Reqs :
        (Classified(r) /\ fields[r].item_type.t = "str") =>
            /\ fields[r].total_explicit_items = ExpectedTotal(sub[r])
            /\ fields[r].plural_item_type =
                 ExpectedPlural(fields[r].item_type.s, fields[r].total_explicit_items)

\* ---------------------------------------------------------------------
\* C12 (amended): for a non-empty itemType the pluralized reference is that
\* function of itemType and totalExplicit = sofaCount + chairCount +
\* cushionCount, each count being the parsed field if its raw text is all
\* digits and 0 otherwise; "Bag" with all counts 0 gives "Bags" and "Chair"
\* gives "Chair".  An empty or absent itemType gives the empty reference
\* whatever the counts are.
\* ---------------------------------------------------------------------
C12_PluralOfNamedItem ==
    \A r \in Reqs :
        (Classified(r) /\ fields[r].item_type.t = "str") =>
            LET f == fields[r]
                it == f.item_type.s
                n == f.total_explicit_items
            IN  /\ n = ExpectedTotal(sub[r])
                /\ it # "" => f.plural_item_type = ExpectedPlural(it, n)
                /\ it = "" => f.plural_item_type = ""
                /\ (it = "Bag" /\ n = 0) => f.plural_item_type = "Bags"
                /\ (it = "Chair" /\ n = 0) => f.plural_item_type = "Chair"

\* an item "Bag" with all counts 0 was extracted as "Bags"
C12_Witness ==
    \E r \in Reqs :
        /\ Classified(r)
        /\ fields[r].item_type = PyStr("Bag")
        /\ fields[r].total_explicit_items = 0
        /\ fields[r].plural_item_type = "Bags"

\* ---------------------------------------------------------------------
\* C13: when no critical rule matches, a block without a table entry is the
\* empty string, the draft is assembled and the request ends with success
\* when its collaborators succeed, and the assembled draft (the text handed
\* to the refiner) carries the label "Please note:", "Estimated cost:" or
\* "Completion time:" only when that block is non-empty.
\* ---------------------------------------------------------------------
C13_LabelsOnlyForNonEmptyBlocks ==
    \A r \in Reqs :
        result[r].kind = "composable" =>
            LET b == result[r].blocks
                draft == result[r].prompt
            IN  /\ draft # ""
                /\ (pc[r] = "done" /\ "INFO Outlook draft successfully created" \in Range(log[r]))
                     => http[r].status = 200
                /\ b.disclaimer = "" => ~Contains("Please note:", draft)
                /\ b.estimate = "" => ~Contains("Estimated cost:", draft)
                /\ b.completion = "" => ~Contains("Completion time:", draft)

\* ---------------------------------------------------------------------
\* C14: extraction is total.  For every structurally valid submission,
\* whatever the type of any answer, the fields are extracted and the request
\* does not end with the internal-error response before any collaborator is
\* called; an absent answer resolves to the empty string, zero or false.
\* ---------------------------------------------------------------------
C14_ExtractionTotal ==
    \A r \in Reqs :
        (pc[r] # "start" /\ sub[r].payload = "ok") =>
            /\ fields[r].extracted
            /\ calls[r] = <<>> => http[r].status # 500
            /\ Answer(sub[r], QItem) = PyAbsent => fields[r].item_type = PyStr("")
            /\ ExpectedTotal(sub[r]) = 0 => fields[r].total_explicit_items = 0
            /\ (\A i \in DOMAIN UploadNames : Answer(sub[r], UploadNames[i]) = PyAbsent)
                 => ~fields[r].any_files_uploaded

\* ---------------------------------------------------------------------
\* Vocabulary of the requests served together
\* ---------------------------------------------------------------------
\* what a request that runs alone extracts from submission s
OwnFields(s) == Extract(s.questions)

\* the subject a request that runs alone returns for submission s
OwnSubject(s) ==
    LET f == OwnFields(s) IN
    IF CriticalRule(f) # 0 THEN CriticalSubject(CriticalRule(f), f) ELSE EmailSubject(f)

\* the texts a request that runs alone can return for submission s, one for
\* each answer of the refiner
OwnBodies(s) ==
    LET f == OwnFields(s) IN
    IF CriticalRule(f) # 0 THEN {CriticalBody(CriticalRule(f), f)}
    ELSE {GeneratedEmailBody(RefinerText(o, TemplateText(f, Blocks(f)))) :
            o \in RefinerOutcomes \ {"raises"}}

\* subject, text and recipient of request r come from its own submission
OwnOutcome(r) ==
    /\ Classified(r) =>
         /\ fields[r] = OwnFields(sub[r])
         /\ result[r].subject = OwnSubject(sub[r])
         /\ result[r].body # "" => result[r].body \in OwnBodies(sub[r])
    /\ \A k \in DOMAIN sent[r] :
         /\ sent[r][k].recipient = OwnFields(sub[r]).customer_email
         /\ sent[r][k].subject = OwnSubject(sub[r])
         /\ sent[r][k].body = DraftBody(result[r])
    /\ http[r].status = 200 =>
         /\ http[r].subject = OwnSubject(sub[r])
         /\ http[r].response \in OwnBodies(sub[r])
         /\ http[r].customer_email = OwnFields(sub[r]).customer_email

\* a step of request r leaves every other request as it was
StepIsLocal(r) ==
    pc'[r] # pc[r] =>
        \A q \in Reqs \ {r} :
            /\ pc'[q] = pc[q] /\ fields'[q] = fields[q] /\ result'[q] = result[q]
            /\ token'[q] = token[q] /\ calls'[q] = calls[q] /\ sent'[q] = sent[q]
            /\ http'[q] = http[q] /\ log'[q] = log[q]

\* ---------------------------------------------------------------------
\* C15: with two requests interleaved in any order, the subject, text and
\* recipient each request returns and dispatches are those of its own
\* submission, the same as when it runs alone, and no step of a request
\* changes anything of the other.
\* ---------------------------------------------------------------------
C15_RequestsIndependent ==
    /\ [](\A r \in Reqs : OwnOutcome(r))
    /\ [][\A r \in Reqs : StepIsLocal(r)]_vars

\* a critical and a composable request of different customers have both
\* dispatched their drafts
C15_Witness ==
    /\ Len(sent[1]) = 1 /\ Len(sent[2]) = 1
    /\ sent[1][1].recipient # sent[2][1].recipient
    /\ sent[1][1].subject # sent[2][1].subject
    /\ calls[1] = <<"acquire", "dispatch">>
    /\ calls[2] = <<"refine", "acquire", "dispatch">>

C17_GreetingFallsBack ==
    \A r \in Reqs :
        (Classified(r) /\ fields[r].customer_first_name.t = "str") =>
            LET name == fields[r].customer_first_name.s
                text == IF result[r].kind = "critical" THEN result[r].body
                        ELSE result[r].prompt
            IN  /\ name # "" => Contains("Hi " \o name \o ",", text)
                /\ name = "" => ~Contains("Hi ,", text)

\* ---------------------------------------------------------------------
\* Vocabulary of the disclaimer
\* ---------------------------------------------------------------------
\* the clauses in their listed order, each with its predicate; mailIn is the
\* location condition of the mail-in clause
DisclaimerClauses(f, mailIn) ==
    << [when |-> f.service_type = PyStr("Leather Restoration")
                 /\ f.item_type = PyStr("Cushion"),
        text |-> "Treating a single cushion may result in a mismatch."],
       [when |-> PatinaDue(f),
        text |-> "The patina of your leather may not match."],
       [when |-> PatinaDue(f) /\ mailIn,
        text |-> "We require the original seat cover mailed to us."],
       [when |-> f.service_type = PyStr("Leather Dyeing (Color Change)")
                 /\ IsStrIn(f.item_type, {"Sofa", "Chair", "Cushion", "Bag", "Coat"}),
        text |-> "The new coating may reduce the suppleness."] >>

\* the texts of the clauses whose predicate holds, joined by one space
RECURSIVE JoinClauses(_)
JoinClauses(clauses) ==
    IF clauses = <<>> THEN ""
    ELSE LET rest == JoinClauses(Tail(clauses)) IN
         IF ~Head(clauses).when THEN rest
         ELSE IF rest = "" THEN Head(clauses).text
         ELSE Head(clauses).text \o " " \o rest

\* ---------------------------------------------------------------------
\* C18 (as claimed): the disclaimer block is the one-space concatenation, in
\* the listed order, of the clauses whose predicate holds, the mail-in clause
\* following the patina warning whenever the request is not in the service
\* area (a missing ZIP included).
\* ---------------------------------------------------------------------
C18_DisclaimerNotInArea ==
    \A r \in Reqs :
        result[r].kind = "composable" =>
            result[r].blocks.disclaimer =
                JoinClauses(DisclaimerClauses(fields[r], ~ZipInside(fields[r])))

\* ---------------------------------------------------------------------
\* C18 (amended): the same concatenation, the mail-in clause following the
\* patina warning when the ZIP is present and lies outside [90000, 92899].
\* A clause whose predicate is false is absent, no clause appears twice, and
\* the block is empty when no predicate holds.
\* ---------------------------------------------------------------------
C18_DisclaimerClauses ==
    \A r \in Reqs :
        result[r].kind = "composable" =>
            LET f == fields[r]
                cl == DisclaimerClauses(f, ZipOutside(f))
                d == result[r].blocks.disclaimer
            IN  /\ d = JoinClauses(cl)
                /\ (\A k \in DOMAIN cl : ~cl[k].when) <=> d = ""
                /\ (PatinaDue(f) /\ f.zip_code = <<>>) => d = cl[2].text
                /\ (PatinaDue(f) /\ ZipOutside(f)) => d = cl[2].text \o " " \o cl[3].text

\* reupholstery of a cushion with a ZIP outside the area was composed with
\* the patina warning and the mail-in clause
C18_Witness ==
    \E r \in Reqs :
        /\ result[r].kind = "composable"
        /\ PatinaDue(fields[r])
        /\ ZipOutside(fields[r])
        /\ result[r].blocks.disclaimer
             = "The patina of your leather may not match."
               \o " We require the original seat cover mailed to us."

\* ---------------------------------------------------------------------
\* Vocabulary of the responses
\* ---------------------------------------------------------------------
\* the refiner was called for request r and its call failed
RefineFailed(r) == "refine" \in Range(calls[r]) /\ result[r].body = ""

\* the response of request r fits the calls it has made
ResponseInOrder(r) ==
    /\ pc[r] = "done" <=> http[r] # NoHttp
    /\ pc[r] = "done" => http[r].status \in {200, 400, 500}
    /\ RefineFailed(r) =>
         /\ pc[r] = "done"
         /\ http[r] = InternalError
         /\ calls[r] = <<"refine">>
         /\ token[r] = ""
         /\ sent[r] = <<>>
    /\ http[r].status = 400 => calls[r] = <<>>
    /\ http[r].status = 200 =>
         /\ "acquire" \in Range(calls[r])
         /\ result[r].kind = "composable" => calls[r][1] = "refine"
         /\ token[r] # "" => (calls[r][Len(calls[r])] = "dispatch" /\ Len(sent[r]) = 1)
         /\ token[r] = "" => calls[r][Len(calls[r])] = "acquire"

\* a request is answered once: its response never changes
AnsweredOnce(r) == http[r] # NoHttp => http'[r] = http[r]

\* ---------------------------------------------------------------------
\* C19: when the refiner fails on the composable path the request ends with
\* the 500 response and neither credential acquisition nor dispatch is
\* attempted; every request that ends has exactly one response, of status
\* 200, 400 or 500, and the 200 response is given only after the credential
\* attempt and, with a token, the dispatch attempt have finished.
\* ---------------------------------------------------------------------
C19_RefinerFailureIs500 ==
    /\ [](\A r \in Reqs : ResponseInOrder(r))
    /\ [][\A r \in Reqs : AnsweredOnce(r)]_vars

\* the refiner failed and the request ended with 500 after that one call
C19_Witness ==
    \E r \in Reqs :
        /\ RefineFailed(r)
        /\ result[r].kind = "composable"
        /\ pc[r] = "done"
        /\ http[r].status = 500
        /\ calls[r] = <<"refine">>

\* ---------------------------------------------------------------------
\* C20: whenever a draft is dispatched, its recipient is the customer_email
\* and its subject the subject that the response of the same request
\* returns; on a critical match the dispatched body is the returned text with
\* every newline replaced by <br/> and the signature appended, on the
\* composable path it is exactly the returned body.  A request whose draft
\* was created is answered with 200.
\* ---------------------------------------------------------------------
C20_DraftMatchesResponse ==
    \A r \in Reqs :
        /\ (pc[r] = "done" /\ "INFO Successfully created Outlook draft" \in Range(log[r]))
             => (http[r].status = 200 /\ Len(sent[r]) = 1)
        /\ http[r].status = 200 =>
             \A k \in DOMAIN sent[r] :
                /\ sent[r][k].recipient = http[r].customer_email
                /\ sent[r][k].subject = http[r].subject
                /\ sent[r][k].sender = OUTLOOK_SENDER_EMAIL
                /\ http[r].shape = "flat" =>
                     sent[r][k].body =
                         replace(http[r].response, NL, BR) \o OUTLOOK_EMAIL_SIGNATURE
                /\ http[r].shape = "data" => sent[r][k].body = http[r].response

\* a composed draft was created and its body returned with 200
C20_Witness ==
    \E r \in Reqs :
        /\ http[r].status = 200
        /\ http[r].shape = "data"
        /\ "INFO Successfully created Outlook draft" \in Range(log[r])
        /\ Len(sent[r]) = 1
        /\ sent[r][1].body = http[r].response
        /\ sent[r][1].recipient = AnnMail

\* ---------------------------------------------------------------------
\* Vocabulary of the foam service
\* ---------------------------------------------------------------------
\* foam replacement and restuffing, with an upload and without a keyword
FoamRestuffing(f) ==
    /\ f.service_type = PyStr("Foam Replacement & Restuffing")
    /\ f.any_files_uploaded
    /\ NoKeyword(f)

\* ---------------------------------------------------------------------
\* C21: for the service "Foam Replacement & Restuffing" with files uploaded
\* and no keyword, the only critical rule that can match is rule 5, and it
\* matches exactly for a sofa or chair with detachable cushions and a ZIP
\* that is present and outside [90000, 92899]; with fixed cushions and such
\* a ZIP no critical rule matches (rule 4 names the service "Foam
\* Replacement") and the handler goes on to block composition.
\* ---------------------------------------------------------------------
C21_FoamRestuffingOnlyRule5 ==
    \A r \in Reqs :
        (Classified(r) /\ FoamRestuffing(fields[r])) =>
            LET f == fields[r] IN
            /\ result[r].rule \in {0, 5}
            /\ result[r].rule = 5
                 <=> /\ IsStrIn(f.item_type, {"Sofa", "Chair"})
                     /\ f.cushions_detachable_fixed = PyStr("Detachable")
                     /\ ZipOutside(f)
            /\ result[r].rule = 5 <=> result[r].kind = "critical"
            /\ (f.cushions_detachable_fixed = PyStr("Fixed") /\ ZipOutside(f))
                 => /\ result[r].rule = 0
                    /\ result[r].kind = "composable"
                    /\ result[r].composed
                    /\ ~Rule4(f)

\* foam restuffing of a sofa with fixed cushions and ZIP 10001 was composed
\* into blocks, no critical rule having matched
C21_Witness ==
    \E r \in Reqs :
        /\ Classified(r)
        /\ FoamRestuffing(fields[r])
        /\ fields[r].item_type = PyStr("Sofa")
        /\ fields[r].cushions_detachable_fixed = PyStr("Fixed")
        /\ fields[r].zip_code = <<10001>>
        /\ result[r].kind = "composable"
        /\ result[r].blocks.estimate # ""

\* ---------------------------------------------------------------------
\* Vocabulary of the mail-in clause
\* ---------------------------------------------------------------------
\* the disclaimer block carries the reupholstery mail-in requirement
MailInDue(d) == Contains("We require the original seat cover mailed to us.", d)

\* ---------------------------------------------------------------------
\* C22: in every request that reaches block composition with a ZIP that is
\* present and outside [90000, 92899] the delivery block is non-empty; in
\* every request that reaches block composition with service Leather
\* Reupholstery and item Sofa or Chair the ZIP is absent, unparsable or
\* inside [90000, 92899]; so the reupholstery mail-in requirement clause
\* appears only for the item Cushion.
\* ---------------------------------------------------------------------
C22_OutOfAreaComposition ==
    \A r \in Reqs :
        result[r].kind = "composable" =>
            LET f == fields[r]
                b == result[r].blocks
            IN  /\ ZipOutside(f) => b.delivery # ""
                /\ (f.service_type = PyStr("Leather Reupholstery")
                      /\ IsStrIn(f.item_type, {"Sofa", "Chair"}))
                     => (f.zip_code = <<>> \/ ZipInside(f))
                /\ MailInDue(b.disclaimer)
                     => /\ f.item_type = PyStr("Cushion")
                        /\ f.service_type = PyStr("Leather Reupholstery")
                        /\ ZipOutside(f)

\* reupholstery of a cushion with ZIP 10001 reached block composition: the
\* delivery block is the shipping note and the disclaimer carries the
\* mail-in requirement
C22_Witness ==
    \E r \in Reqs :
        /\ result[r].kind = "composable"
        /\ fields[r].service_type = PyStr("Leather Reupholstery")
        /\ fields[r].item_type = PyStr("Cushion")
        /\ fields[r].zip_code = <<10001>>
        /\ result[r].blocks.delivery = ShippingNote
        /\ MailInDue(result[r].blocks.disclaimer)

====
